---- MODULE Spec2Model ----
(***************************************************************************)
(* A model of edgy's loop algorithms (src/loops.py): pure edge loops, the  *)
(* selection analyser, the shortest path finder, the loop completion       *)
(* search and the selection snapshot, over small explicit meshes.          *)
(*                                                                         *)
(* Element ids are the 0-based indices of the source (vert.index,          *)
(* edge.index, face.index); tuples of the source are sequences.            *)
(***************************************************************************)
EXTENDS Integers, Sequences, FiniteSets, TLC

VARIABLES
    mesh,     \* the mesh of the active object
    sel,      \* its selection: select mode, selected elements, select history
    saved,    \* a SavedSelectionState held by a caller, or NoSaved
    phase,    \* "idle", "captured" (a snapshot is held), "edited" (the
              \* topology changed since; in a select_loop session, the user
              \* changed something), "done"
    steps,    \* the selection writes, mesh edits and invocations so far
    ret,      \* the last call and what it returned
    object,   \* the identity of context.object.data, the mesh being edited
    cache     \* select_loop's package-level variables (lines 450-452)

vars == <<mesh, sel, saved, phase, steps, ret, object, cache>>

(***************************************************************************)
(* Bounds of the generated meshes.                                         *)
(***************************************************************************)
NV == 4
MaxFaces == 2

(***************************************************************************)
(* Helpers on sets and sequences.                                          *)
(***************************************************************************)
Min(S) == CHOOSE x \in S : \A y \in S : x <= y
Max(S) == CHOOSE x \in S : \A y \in S : x >= y

RECURSIVE SortAsc(_)
SortAsc(S) == IF S = {} THEN <<>> ELSE <<Min(S)>> \o SortAsc(S \ {Min(S)})

Reverse(s) == [i \in 1..Len(s) |-> s[Len(s) + 1 - i]]

Range(s) == {s[i] : i \in DOMAIN s}

Last(s) == s[Len(s)]

\* The element of a one-element set.  {F(x) : x \in {e}} computes e once and
\* F from its value, where LET x == e would compute e at every use of x.
The(S) == CHOOSE x \in S : TRUE

RECURSIVE Sum(_, _)
Sum(f, S) == IF S = {} THEN 0 ELSE LET x == CHOOSE y \in S : TRUE IN f[x] + Sum(f, S \ {x})

RECURSIVE Pow2(_)
Pow2(n) == IF n = 0 THEN 1 ELSE 2 * Pow2(n - 1)

(***************************************************************************)
(* The mesh (bmesh.types.BMesh as the source reads it).  ev[e] is          *)
(* edge.verts, fe[f] the edges of face f, link[v] is vert.link_edges in    *)
(* the order the mesh iterates it.                                         *)
(***************************************************************************)
Verts(m) == 0 .. m.nv - 1
Edges(m) == 0 .. m.ne - 1
Faces(m) == 0 .. m.nf - 1

edge_verts(m, e) == {m.ev[e][1], m.ev[e][2]}

other_vert(m, e, v) == IF m.ev[e][1] = v THEN m.ev[e][2] ELSE m.ev[e][1]

edge_link_faces(m, e) == {f \in Faces(m) : e \in m.fe[f]}

face_verts(m, f) == UNION {edge_verts(m, e) : e \in m.fe[f]}

vert_link_faces(m, v) == {f \in Faces(m) : v \in face_verts(m, f)}

link_edges(m, v) == m.link[v]

\* BMEdge.is_boundary: the edge has exactly one face.
edge_is_boundary(m, e) == Cardinality(edge_link_faces(m, e)) = 1

\* BMVert.is_boundary: some edge of the vertex is a boundary edge.
vert_is_boundary(m, v) == \E e \in Range(link_edges(m, v)) : edge_is_boundary(m, e)

\* BMVert.is_wire: the vertex has edges and none of them has a face.
vert_is_wire(m, v) ==
    /\ Len(link_edges(m, v)) > 0
    /\ \A e \in Range(link_edges(m, v)) : edge_link_faces(m, e) = {}

BoolInt(b) == IF b THEN 1 ELSE 0

is_pole(m, v) ==
    Len(link_edges(m, v)) + BoolInt(vert_is_boundary(m, v)) + BoolInt(vert_is_wire(m, v)) # 4

(***************************************************************************)
(* Generated meshes: every graph on NV vertices, with up to MaxFaces       *)
(* triangle or quad faces on cycles of its edges, both iteration orders of *)
(* link_edges and both orientations of edge.verts.                         *)
(***************************************************************************)
AllPairs == {p \in (0 .. NV - 1) \X (0 .. NV - 1) : p[1] < p[2]}

PairKey(p) == p[1] * NV + p[2]

PairOfKey(k) == <<k \div NV, k % NV>>

EdgeTable(P, flip) ==
    LET keys == SortAsc({PairKey(p) : p \in P})
    IN [i \in 0 .. Len(keys) - 1 |->
          LET p == PairOfKey(keys[i + 1])
          IN IF flip THEN <<p[2], p[1]>> ELSE p]

IsCycle(ev, S) ==
    LET vs == UNION {{ev[e][1], ev[e][2]} : e \in S}
    IN /\ Cardinality(vs) = Cardinality(S)
       /\ \A v \in vs : Cardinality({e \in S : v \in {ev[e][1], ev[e][2]}}) = 2

FaceCandidates(ev) ==
    {S \in SUBSET (DOMAIN ev) : Cardinality(S) \in {3, 4} /\ IsCycle(ev, S)}

FaceKey(S) == Sum([e \in S |-> Pow2(e)], S)

FaceTable(F) ==
    LET keys == SortAsc({FaceKey(S) : S \in F})
    IN [i \in 0 .. Len(keys) - 1 |-> CHOOSE S \in F : FaceKey(S) = keys[i + 1]]

LinkTable(nv, ev, rev) ==
    [v \in 0 .. nv - 1 |->
        LET s == SortAsc({e \in DOMAIN ev : v \in {ev[e][1], ev[e][2]}})
        IN IF rev THEN Reverse(s) ELSE s]

MkMesh(nv, ev, fe, rev) ==
    [nv |-> nv, ne |-> Cardinality(DOMAIN ev), nf |-> Cardinality(DOMAIN fe),
     ev |-> ev, fe |-> fe, link |-> LinkTable(nv, ev, rev)]

GenMeshes(Flips, Revs) ==
    UNION {
      LET ev == EdgeTable(P, flip)
      IN {MkMesh(NV, ev, FaceTable(F), rev) :
            F \in {G \in SUBSET FaceCandidates(ev) : Cardinality(G) <= MaxFaces},
            rev \in Revs}
      : P \in SUBSET AllPairs, flip \in Flips}

(***************************************************************************)
(* Larger meshes, written out.                                             *)
(***************************************************************************)
FromSeq(s) == [i \in 0 .. Len(s) - 1 |-> s[i + 1]]

\* The open grid of 3 x 3 vertices: 4 quads, vertex 2 in the middle, the corners
\* 0, 5, 6 and 8 its poles.
Grid3 ==
    MkMesh(9,
           FromSeq(<<<<0, 1>>, <<1, 2>>, <<2, 3>>, <<3, 0>>, <<2, 4>>, <<4, 5>>,
                     <<5, 3>>, <<1, 6>>, <<6, 7>>, <<7, 2>>, <<7, 8>>, <<8, 4>>>>),
           FromSeq(<<{0, 1, 2, 3}, {2, 4, 5, 6}, {1, 7, 8, 9}, {4, 9, 10, 11}>>),
           FALSE)

\* A quad 0-1-2-3 with its two diagonals as wire edges and a wire edge 1-4.
QuadWithWires ==
    MkMesh(5,
           FromSeq(<<<<1, 0>>, <<2, 0>>, <<3, 0>>, <<2, 1>>, <<3, 1>>, <<4, 1>>, <<3, 2>>>>),
           FromSeq(<<{0, 2, 3, 6}>>),
           FALSE)

\* A closed ring of 6 wire edges, and the same ring as the boundary of one face.
Ring6 ==
    MkMesh(6,
           FromSeq(<<<<0, 1>>, <<1, 2>>, <<2, 3>>, <<3, 4>>, <<4, 5>>, <<5, 0>>>>),
           FromSeq(<<>>),
           FALSE)

Ring6Face ==
    MkMesh(6,
           FromSeq(<<<<0, 1>>, <<1, 2>>, <<2, 3>>, <<3, 4>>, <<4, 5>>, <<5, 0>>>>),
           FromSeq(<<{0, 1, 2, 3, 4, 5}>>),
           FALSE)

Catalogue == {Grid3, QuadWithWires, Ring6, Ring6Face}

Meshes == GenMeshes(BOOLEAN, BOOLEAN) \cup Catalogue

\* find_shortest_path reads neither link_edges nor the order of edge.verts.
PathMeshes == GenMeshes({FALSE}, {FALSE})

(***************************************************************************)
(* Pure Loop Detector.                                                     *)
(***************************************************************************)
PureEdgeLoop(vertices, edges, edge_set) ==
    [vertices |-> vertices, edges |-> edges, edge_set |-> edge_set]

is_closed(loop) == loop.vertices[1] = Last(loop.vertices)

reverse(loop) == PureEdgeLoop(Reverse(loop.vertices), Reverse(loop.edges), loop.edge_set)

\* PureEdgeLoop.__eq__
LoopEq(a, b) == a.edge_set = b.edge_set

\* The condition of line 69: next_edge has no face of last_edge.
FaceDisjoint(m, next_edge, last_edge) ==
    ~ \E face \in edge_link_faces(m, last_edge) : face \in edge_link_faces(m, next_edge)

\* A choice of the next edge that does not look at faces: the first edge of
\* head.link_edges other than last_edge.
NextEdge_ignoring_faces(m, head, last_edge) ==
    LET le == link_edges(m, head)
        ok == {i \in DOMAIN le : le[i] # last_edge}
    IN IF ok = {} THEN -1 ELSE le[Min(ok)]

\* The for loop of lines 68-79: the first edge of head.link_edges that shares no
\* face with last_edge, or -1 when the loop runs into its else branch.
NextEdge(m, head, last_edge) ==
    LET le == link_edges(m, head)
        ok == {i \in DOMAIN le : FaceDisjoint(m, le[i], last_edge)}
    IN IF ok = {} THEN -1 ELSE le[Min(ok)]

\* The while loop of find_loop.  The walk is a function of (last_edge, head):
\* when a pair comes back the loop never exits, and halts is FALSE.
RECURSIVE FindLoopWalk(_, _, _, _, _, _, _)
FindLoopWalk(m, edge, stop_set, last_edge, head, vertices, edges) ==
    IF is_pole(m, head) \/ head \in stop_set
    THEN [halts |-> TRUE, vertices |-> vertices, edges |-> edges, why |-> "pole"]
    ELSE LET next_edge == NextEdge(m, head, last_edge)
         IN IF next_edge = -1
            THEN [halts |-> TRUE, vertices |-> vertices, edges |-> edges, why |-> "deadend"]
            ELSE IF next_edge = edge
            THEN [halts |-> TRUE, vertices |-> vertices, edges |-> edges, why |-> "start"]
            ELSE LET new_head == other_vert(m, next_edge, head)
                 IN IF \E i \in DOMAIN edges : edges[i] = next_edge /\ vertices[i + 1] = new_head
                    THEN [halts |-> FALSE, vertices |-> vertices, edges |-> edges, why |-> "cycle"]
                    ELSE The({FindLoopWalk(m, edge, stop_set, e, h, vs, es) :
                                e \in {next_edge}, h \in {new_head},
                                vs \in {Append(vertices, new_head)},
                                es \in {Append(edges, next_edge)}})

FindLoopRun(m, edge, start, stop_set) ==
    LET head == other_vert(m, edge, start)
    IN FindLoopWalk(m, edge, stop_set, edge, head, <<start, head>>, <<edge>>)

\* The PureEdgeLoop a walk returns (lines 67, 71, 79).
LoopOf(r) == PureEdgeLoop(r.vertices, r.edges, Range(r.edges))

find_loop(m, edge, start, stop_set) ==
    The({LoopOf(r) : r \in {FindLoopRun(m, edge, start, stop_set)}})

\* The two for loops of pure_edge_loops are one sweep over (start, edge) seeds:
\* an edge already visited is skipped, any other adds its loop.
RECURSIVE SweepSeeds(_, _, _, _, _)
SweepSeeds(m, seeds, i, result, visited) ==
    IF i > Len(seeds) THEN [halts |-> TRUE, val |-> result]
    ELSE LET start == seeds[i][1]
             edge == seeds[i][2]
             Swept(r) ==
                IF ~ r.halts THEN [halts |-> FALSE, val |-> result]
                ELSE The({SweepSeeds(m, seeds, i + 1, res, vis) :
                            res \in {Append(result, LoopOf(r))},
                            vis \in {visited \cup Range(r.edges)}})
         IN IF edge \in visited THEN SweepSeeds(m, seeds, i + 1, result, visited)
            ELSE The({Swept(r) : r \in {FindLoopRun(m, edge, start, {})}})

RECURSIVE Concat(_, _)
Concat(ss, i) == IF i > Len(ss) THEN <<>> ELSE ss[i] \o Concat(ss, i + 1)

PoleSet(m) == {v \in Verts(m) : is_pole(m, v)}

\* The iteration orders of the set `poles` (line 88).
Perms(S) ==
    {s \in [1 .. Cardinality(S) -> S] : \A i, j \in DOMAIN s : s[i] = s[j] => i = j}

PoleSeeds(m, order) ==
    Concat([k \in DOMAIN order |->
              [j \in DOMAIN link_edges(m, order[k]) |->
                  <<order[k], link_edges(m, order[k])[j]>>]], 1)

EdgeSeeds(m) == [k \in 1 .. m.ne |-> <<m.ev[k - 1][1], k - 1>>]

pure_edge_loops(m, order) ==
    The({SweepSeeds(m, seeds, 1, <<>>, {}) : seeds \in {PoleSeeds(m, order) \o EdgeSeeds(m)}})

pure_edge_loop(m, edge) ==
    LET tail == m.ev[edge][1]
        Back(r) ==
            LET result == LoopOf(r)
            IN IF ~ r.halts THEN [halts |-> FALSE, val |-> result]
               ELSE IF Last(result.edges) = edge
               THEN [halts |-> TRUE,
                     val |-> PureEdgeLoop(Reverse(result.vertices), Reverse(result.edges),
                                          Range(result.edges))]
               ELSE [halts |-> TRUE, val |-> result]
        Forth(p) ==
            LET partial == LoopOf(p)
            IN IF ~ p.halts THEN [halts |-> FALSE, val |-> partial]
               ELSE IF partial.vertices[1] = Last(partial.vertices)
               THEN [halts |-> TRUE, val |-> partial]
               ELSE The({Back(r) : r \in {FindLoopRun(m, Last(partial.edges),
                                                      Last(partial.vertices), {})}})
    IN The({Forth(p) : p \in {FindLoopRun(m, edge, tail, {})}})

(***************************************************************************)
(* The selection of the mesh, as bmesh keeps it.  mode is                  *)
(* tool_settings.mesh_select_mode (vertex, edge, face), which the mesh's   *)
(* own select_mode follows; history is bm.select_history, its last entry   *)
(* the active element.                                                     *)
(***************************************************************************)
Kinds == {"BMVert", "BMEdge", "BMFace"}

Items(m, kind) ==
    CASE kind = "BMVert" -> Verts(m)
      [] kind = "BMEdge" -> Edges(m)
      [] kind = "BMFace" -> Faces(m)
      [] OTHER -> {}

Selected(s, kind) ==
    CASE kind = "BMVert" -> s.verts
      [] kind = "BMEdge" -> s.edges
      [] kind = "BMFace" -> s.faces
      [] OTHER -> {}

SelectedEdgeAt(m, edges, v) == \E e \in Range(link_edges(m, v)) : e \in edges

\* v.select = select (BM_vert_select_set): the flag of the vertex alone.
vert_select_set(m, s, v, select) ==
    [s EXCEPT !.verts = IF select THEN @ \cup {v} ELSE @ \ {v}]

\* e.select = select (BM_edge_select_set): selecting selects both vertices;
\* deselecting deselects them too, outside vertex mode only those that no
\* other selected edge uses.
edge_select_set(m, s, e, select) ==
    IF select
    THEN [s EXCEPT !.edges = @ \cup {e}, !.verts = @ \cup edge_verts(m, e)]
    ELSE LET es == s.edges \ {e}
         IN [s EXCEPT !.edges = es,
                      !.verts = IF s.mode[1] THEN @ \ edge_verts(m, e)
                                ELSE @ \ {v \in edge_verts(m, e) : ~ SelectedEdgeAt(m, es, v)}]

\* f.select = select (BM_face_select_set): selecting selects the edges and
\* vertices of the face; deselecting deselects them as the select mode says.
face_select_set(m, s, f, select) ==
    IF select
    THEN [s EXCEPT !.faces = @ \cup {f}, !.edges = @ \cup m.fe[f],
                   !.verts = @ \cup face_verts(m, f)]
    ELSE LET fs == s.faces \ {f}
             es == IF s.mode[1] \/ s.mode[2] THEN s.edges \ m.fe[f]
                   ELSE s.edges \ {e \in m.fe[f] : edge_link_faces(m, e) \cap fs = {}}
             vs == IF s.mode[1] THEN s.verts \ face_verts(m, f)
                   ELSE s.verts \ {v \in face_verts(m, f) : ~ SelectedEdgeAt(m, es, v)}
         IN [s EXCEPT !.faces = fs, !.edges = es, !.verts = vs]

elem_select_set(m, s, kind, i, select) ==
    CASE kind = "BMVert" -> vert_select_set(m, s, i, select)
      [] kind = "BMEdge" -> edge_select_set(m, s, i, select)
      [] kind = "BMFace" -> face_select_set(m, s, i, select)

\* BM_select_history_validate: entries of deselected elements leave the history.
HistoryValidate(s) ==
    LET Keep(h) == h[2] \in Selected(s, h[1])
    IN [s EXCEPT !.history = SelectSeq(@, Keep)]

\* bm.select_flush_mode(): in vertex mode edges and faces follow the vertices,
\* in edge mode faces follow the edges; then the history is validated.
select_flush_mode(m, s) ==
    LET t == IF s.mode[1]
             THEN [s EXCEPT !.edges = {e \in Edges(m) : edge_verts(m, e) \subseteq s.verts},
                            !.faces = {f \in Faces(m) : face_verts(m, f) \subseteq s.verts}]
             ELSE IF s.mode[2]
             THEN [s EXCEPT !.faces = {f \in Faces(m) : m.fe[f] \subseteq s.edges}]
             ELSE s
    IN HistoryValidate(t)

\* A fold of a selection update over the items 0 .. n - 1 in index order.
RECURSIVE ForEach(_, _, _, _, _, _)
ForEach(m, s, kind, i, n, wanted) ==
    IF i >= n THEN s
    ELSE The({ForEach(m, t, kind, i + 1, n, wanted) :
                t \in {elem_select_set(m, s, kind, i, i \in wanted)}})

\* context.tool_settings.mesh_select_mode = new_mode.  A mode that differs is
\* passed on to the mesh (EDBM_selectmode_set): history entries of kinds the
\* mode has not are dropped and the selection is converted to the mode.
set_select_mode(m, s, new_mode) ==
    IF new_mode = s.mode THEN s
    ELSE LET InMode(h) == \/ h[1] = "BMVert" /\ new_mode[1]
                          \/ h[1] = "BMEdge" /\ new_mode[2]
                          \/ h[1] = "BMFace" /\ new_mode[3]
             t == [s EXCEPT !.mode = new_mode, !.history = SelectSeq(@, InMode)]
         IN IF t.verts = {} /\ t.edges = {} /\ t.faces = {} THEN t
            ELSE IF new_mode[1]
            THEN [t EXCEPT
                    !.edges = @ \cup {e \in Edges(m) : edge_verts(m, e) \subseteq t.verts},
                    !.faces = @ \cup {f \in Faces(m) : face_verts(m, f) \subseteq t.verts}]
            ELSE IF new_mode[2]
            THEN LET u == [t EXCEPT !.verts = UNION {edge_verts(m, e) : e \in t.edges}]
                 IN IF t.edges = {} THEN u ELSE select_flush_mode(m, u)
            ELSE The({ForEach(m, u, "BMFace", 0, m.nf, u.faces) :
                        u \in {ForEach(m, t, "BMEdge", 0, m.ne, {})}})

\* bm.select_history.active and its type.
ActiveType(s) == IF s.history = <<>> THEN "NoneType" ELSE Last(s.history)[1]

ActiveIndex(s) == IF s.history = <<>> THEN -1 ELSE Last(s.history)[2]

\* bm.select_history.add(element): no action when it is in the history already.
history_add(s, kind, i) ==
    IF <<kind, i>> \in Range(s.history) THEN s
    ELSE [s EXCEPT !.history = Append(@, <<kind, i>>)]

(***************************************************************************)
(* Selection Analyzer.                                                     *)
(***************************************************************************)
EdgeSelectionInfo(edge_islands, endpoints, branching, all_selected_verts) ==
    [edge_islands |-> edge_islands, endpoints |-> endpoints, branching |-> branching,
     all_selected_verts |-> all_selected_verts]

\* The keys of selected_verts_to_edges in insertion order: the vertices of the
\* selected edges, edges by index and each edge's vertices as edge.verts has them.
RECURSIVE KeyOrder(_, _, _, _)
KeyOrder(m, edges, i, keys) ==
    IF i > Len(edges) THEN keys
    ELSE LET v0 == m.ev[edges[i]][1]
             v1 == m.ev[edges[i]][2]
             k0 == IF v0 \in Range(keys) THEN keys ELSE Append(keys, v0)
             k1 == IF v1 \in Range(k0) THEN k0 ELSE Append(k0, v1)
         IN The({KeyOrder(m, edges, i + 1, k) : k \in {k1}})

\* A search that stops at the edges next to its seed.
Island_neighbours_only(m, selected, island) ==
    island \cup {e \in selected \ island :
                    \E d \in island : edge_verts(m, e) \cap edge_verts(m, d) # {}}

\* The edges the inner search of from_bmesh collects from one edge: those of
\* the selected edges joined to it through shared vertices.
RECURSIVE Island(_, _, _)
Island(m, selected, island) ==
    LET more == {e \in selected \ island :
                    \E d \in island : edge_verts(m, e) \cap edge_verts(m, d) # {}}
    IN IF more = {} THEN island
       ELSE The({Island(m, selected, grown) : grown \in {island \cup more}})

RECURSIVE IslandsFrom(_, _, _)
IslandsFrom(m, selected, searched_edges) ==
    IF selected \subseteq searched_edges THEN <<>>
    ELSE The({<<island>> \o IslandsFrom(m, selected, searched_edges \cup island) :
                island \in {Island(m, selected, {Min(selected \ searched_edges)})}})

from_bmesh(m, s) ==
    LET all_verts == s.verts
        selected_edges == SortAsc(s.edges)
        keys == KeyOrder(m, selected_edges, 1, <<>>)
        Count(v) == Cardinality({e \in s.edges : v \in edge_verts(m, e)})
        IsEnd(v) == Count(v) = 1
        IsBranch(v) == Count(v) > 2
    IN IF s.edges = {} THEN EdgeSelectionInfo(<<>>, <<>>, <<>>, all_verts)
       ELSE EdgeSelectionInfo(IslandsFrom(m, s.edges, {}), SelectSeq(keys, IsEnd),
                              SelectSeq(keys, IsBranch), all_verts)

(***************************************************************************)
(* Selection State Snapshot.                                               *)
(***************************************************************************)
SavedSelectionState(mode, selected_verts, selected_edges, selected_faces, active_type, active) ==
    [mode |-> mode, selected_verts |-> selected_verts, selected_edges |-> selected_edges,
     selected_faces |-> selected_faces, active_type |-> active_type, active |-> active]

from_context(m, s) ==
    SavedSelectionState(s.mode, s.verts, s.edges, s.faces, ActiveType(s), ActiveIndex(s))

\* restore: the selection it leaves, and whether it raised (IndexError at
\* line 217, where items[self.active] does not exist).
restore(m, s, state) ==
    LET Written(s1) ==
            IF state.mode[1] THEN ForEach(m, s1, "BMVert", 0, m.nv, state.selected_verts)
            ELSE IF state.mode[2] THEN ForEach(m, s1, "BMEdge", 0, m.ne, state.selected_edges)
            ELSE ForEach(m, s1, "BMFace", 0, m.nf, state.selected_faces)
        Flushed(s2) == The({select_flush_mode(m, t) : t \in {s2}})
        Activated(s3) ==
            IF state.active = -1 THEN [raised |-> FALSE, sel |-> s3]
            ELSE LET items == Items(m, state.active_type)
                 IN IF state.active \notin items THEN [raised |-> TRUE, sel |-> s3]
                    ELSE [raised |-> FALSE,
                          sel |-> history_add(s3, state.active_type, state.active)]
    IN The({Activated(s3) :
              s3 \in {Flushed(Written(s1)) : s1 \in {set_select_mode(m, s, state.mode)}}})

(***************************************************************************)
(* Shortest Path Finder.                                                   *)
(***************************************************************************)
\* A graph that records each edge at its verts[0] only.
vert_to_verts_one_way(m, exclude_indices, v) ==
    LET es == SortAsc({e \in Edges(m) \ exclude_indices : m.ev[e][1] = v})
    IN [i \in DOMAIN es |-> other_vert(m, es[i], v)]

\* vert_to_verts[v] (lines 223-228): the neighbours of v over the edges that are
\* not excluded, in edge order.
vert_to_verts(m, exclude_indices, v) ==
    LET es == SortAsc({e \in Edges(m) \ exclude_indices : v \in edge_verts(m, e)})
    IN [i \in DOMAIN es |-> other_vert(m, es[i], v)]

\* The iteration order of a set of vertex indices.
SetOrder(S, desc) == IF desc THEN Reverse(SortAsc(S)) ELSE SortAsc(S)

NoPath == [found |-> FALSE, path |-> <<>>]

\* A queue that takes new entries at the front.
queue_extend_left(queue, entries) == entries \o queue

\* queue.extend(entries)
queue_extend(queue, entries) == queue \o entries

\* The while loop of find_shortest_path (lines 233-251).
RECURSIVE SearchQueue(_, _, _, _, _, _)
SearchQueue(m, exclude_indices, end, desc, queue, searched_verts) ==
    IF queue = <<>> THEN NoPath
    ELSE LET current_vert == Head(queue)[1]
             path == Head(queue)[2]
         IN IF current_vert \in searched_verts
            THEN The({SearchQueue(m, exclude_indices, end, desc, q, searched_verts) :
                        q \in {Tail(queue)}})
            ELSE IF current_vert = end
            THEN [found |-> TRUE, path |-> Append(path, current_vert)]
            ELSE LET nbrs == vert_to_verts(m, exclude_indices, current_vert)
                     non_sharing ==
                        {vert \in Range(nbrs) :
                            /\ path # <<>>
                            /\ ~ \E face \in vert_link_faces(m, Last(path)) :
                                     face \in vert_link_faces(m, vert)}
                     Rest(vert) == vert \notin non_sharing
                     first == SetOrder(non_sharing, desc)
                     second == SelectSeq(nbrs, Rest)
                     new_path == Append(path, current_vert)
                     Entries(vs) == [i \in DOMAIN vs |-> <<vs[i], new_path>>]
                 IN The({SearchQueue(m, exclude_indices, end, desc, q, searched) :
                            q \in {queue_extend(queue_extend(Tail(queue), Entries(first)),
                                                Entries(second))},
                            searched \in {searched_verts \cup {current_vert}}})

find_shortest_path(m, start, end, exclude_indices, desc) ==
    SearchQueue(m, exclude_indices, end, desc, <<<<start, <<>>>>>>, {})

(***************************************************************************)
(* Close Loop.                                                             *)
(***************************************************************************)
RECURSIVE SelectVerts(_, _, _, _)
SelectVerts(m, s, path, i) ==
    IF i > Len(path) THEN s
    ELSE The({SelectVerts(m, t, path, i + 1) : t \in {vert_select_set(m, s, path[i], TRUE)}})

\* A selection of the joining edges that compares pair[1] with verts[1] only.
RECURSIVE SelectJoining_second_vert(_, _, _, _, _)
SelectJoining_second_vert(m, s, a, b, k) ==
    LET link == link_edges(m, a)
    IN IF k > Len(link) THEN s
       ELSE The({SelectJoining_second_vert(m, t, a, b, k + 1) :
                   t \in {IF b = m.ev[link[k]][2]
                          THEN edge_select_set(m, s, link[k], TRUE) ELSE s}})

\* Lines 286-288: the edges at pair[0] that have pair[1] as a vertex, in
\* link_edges order.
RECURSIVE SelectJoining(_, _, _, _, _)
SelectJoining(m, s, a, b, k) ==
    LET link == link_edges(m, a)
    IN IF k > Len(link) THEN s
       ELSE The({SelectJoining(m, t, a, b, k + 1) :
                   t \in {IF b \in {m.ev[link[k]][1], m.ev[link[k]][2]}
                          THEN edge_select_set(m, s, link[k], TRUE) ELSE s}})

RECURSIVE SelectPairs(_, _, _, _)
SelectPairs(m, s, path, i) ==
    IF i >= Len(path) THEN s
    ELSE The({SelectPairs(m, t, path, i + 1) :
                t \in {SelectJoining(m, s, path[i], path[i + 1], 1)}})

\* The loop over the islands, lines 271-290, and the return of line 291.
RECURSIVE CloseIslands(_, _, _, _, _, _)
CloseIslands(m, s, info, saved_state, desc, i) ==
    IF i > Len(info.edge_islands)
    THEN [result |-> "FINISHED", report |-> "", no_path |-> FALSE, raised |-> FALSE,
          sel |-> s]
    ELSE LET island == info.edge_islands[i]
             verts == UNION {edge_verts(m, e) : e \in island}
             InIsland(v) == v \in verts
             ends == SelectSeq(info.endpoints, InIsland)
         IN IF Len(ends) # 2 THEN CloseIslands(m, s, info, saved_state, desc, i + 1)
            ELSE LET Restored(back) ==
                        [result |-> IF back.raised THEN "" ELSE "CANCELLED",
                         report |-> IF back.raised THEN "" ELSE "WARNING",
                         no_path |-> TRUE, raised |-> back.raised, sel |-> back.sel]
                     Closed(path) ==
                        IF s.mode[1] THEN SelectVerts(m, s, path, 1)
                        ELSE SelectPairs(m, s, path, 1)
                     Searched(r) ==
                        IF ~ r.found
                        THEN The({Restored(back) : back \in {restore(m, s, saved_state)}})
                        ELSE The({CloseIslands(m, t, info, saved_state, desc, i + 1) :
                                    t \in {select_flush_mode(m, u) : u \in {Closed(r.path)}}})
                 IN The({Searched(r) :
                           r \in {find_shortest_path(m, ends[1], ends[2], island, desc)}})

\* An execute whose first test leaves out the branch vertices.
CloseLoop_execute_branching_unchecked(m, s, desc) ==
    LET Execute(info) ==
            IF info.endpoints = <<>>
            THEN [result |-> "CANCELLED", report |-> "WARNING", no_path |-> FALSE,
                  raised |-> FALSE, sel |-> s]
            ELSE The({CloseIslands(m, s, info, saved_state, desc, 1) :
                        saved_state \in {from_context(m, s)}})
    IN The({Execute(info) : info \in {from_bmesh(m, s)}})

CloseLoop_execute(m, s, desc) ==
    LET Execute(info) ==
            IF info.endpoints = <<>> \/ info.branching # <<>>
            THEN [result |-> "CANCELLED", report |-> "WARNING", no_path |-> FALSE,
                  raised |-> FALSE, sel |-> s]
            ELSE IF info.edge_islands = <<>>
            THEN [result |-> "CANCELLED", report |-> "WARNING", no_path |-> FALSE,
                  raised |-> FALSE, sel |-> s]
            ELSE The({CloseIslands(m, s, info, saved_state, desc, 1) :
                        saved_state \in {from_context(m, s)}})
    IN The({Execute(info) : info \in {from_bmesh(m, s)}})

(***************************************************************************)
(* Loop Completion Search.                                                 *)
(***************************************************************************)
MAX_EDGE_LOOPS == 10

LoopSearchNode(length, end_vertex, loops) ==
    [length |-> length, end_vertex |-> end_vertex, loops |-> loops]

\* LoopSearchNode's generated __lt__: (length, end_vertex), loops not compared.
NodeLess(a, b) ==
    \/ a.length < b.length
    \/ a.length = b.length /\ a.end_vertex < b.end_vertex

\* heapq on a list; position p of the list is element p + 1 of the sequence.
RECURSIVE SiftDown(_, _, _, _)
SiftDown(heap, startpos, pos, newitem) ==
    IF pos > startpos
    THEN LET parentpos == (pos - 1) \div 2
             parent == heap[parentpos + 1]
         IN IF NodeLess(newitem, parent)
            THEN The({SiftDown(h, startpos, parentpos, newitem) :
                        h \in {[heap EXCEPT ![pos + 1] = parent]}})
            ELSE [heap EXCEPT ![pos + 1] = newitem]
    ELSE [heap EXCEPT ![pos + 1] = newitem]

RECURSIVE SiftUp(_, _, _, _)
SiftUp(heap, startpos, pos, newitem) ==
    LET endpos == Len(heap)
        childpos == 2 * pos + 1
    IN IF childpos < endpos
       THEN LET rightpos == childpos + 1
                child == IF rightpos < endpos
                            /\ ~ NodeLess(heap[childpos + 1], heap[rightpos + 1])
                         THEN rightpos ELSE childpos
            IN The({SiftUp(h, startpos, c, newitem) :
                      h \in {[heap EXCEPT ![pos + 1] = heap[child + 1]]}, c \in {child}})
       ELSE SiftDown(heap, startpos, pos, newitem)

heappush(heap, item) ==
    The({SiftDown(h, 0, Len(h) - 1, it) : h \in {Append(heap, item)}, it \in {item}})

\* heappop: the item returned and the heap left.
heappop(heap) ==
    LET lastelt == Last(heap)
        rest == SubSeq(heap, 1, Len(heap) - 1)
    IN IF rest = <<>> THEN [item |-> lastelt, heap |-> rest]
       ELSE [item |-> heap[1],
             heap |-> The({SiftUp(h, 0, 0, it) : h \in {rest}, it \in {lastelt}})]

ChainEdges(loops) == UNION {loops[i].edge_set : i \in DOMAIN loops}

ChainLength(loops) == Sum([i \in DOMAIN loops |-> Len(loops[i].edges)], DOMAIN loops)

\* The for loop of lines 433-444 at vertex v, from its i-th link edge on.
RECURSIVE Expand(_, _, _, _, _, _)
Expand(m, candidate, stop_set, v, i, queue) ==
    IF i > Len(link_edges(m, v)) THEN [halts |-> TRUE, queue |-> queue]
    ELSE LET loop_edge == link_edges(m, v)[i]
         IN IF \E k \in DOMAIN candidate.loops : loop_edge \in candidate.loops[k].edge_set
            THEN Expand(m, candidate, stop_set, v, i + 1, queue)
            ELSE LET Pushed(r) ==
                        LET next_loop == LoopOf(r)
                            new_sequence == Append(candidate.loops, next_loop)
                            total_edges == ChainLength(new_sequence)
                        IN IF ~ r.halts THEN [halts |-> FALSE, queue |-> queue]
                           ELSE The({Expand(m, candidate, stop_set, v, i + 1, q) :
                                       q \in {heappush(queue,
                                                       LoopSearchNode(total_edges,
                                                                      Last(next_loop.vertices),
                                                                      new_sequence))}})
                 IN The({Pushed(r) : r \in {FindLoopRun(m, loop_edge, v, stop_set)}})

\* The while loop of lines 419-444.
RECURSIVE SearchLoops(_, _, _, _, _)
SearchLoops(m, pure_loop, queue, all_loops, visited_verts) ==
    IF queue = <<>> THEN [halts |-> TRUE, val |-> all_loops]
    ELSE LET Expanded(candidate, x) ==
                IF ~ x.halts THEN [halts |-> FALSE, val |-> all_loops]
                ELSE The({SearchLoops(m, pure_loop, x.queue, all_loops, vis) :
                            vis \in {visited_verts \cup {candidate.end_vertex}}})
             Popped(candidate, heap) ==
                IF Len(all_loops) > MAX_EDGE_LOOPS
                THEN [halts |-> TRUE, val |-> all_loops]
                ELSE IF candidate.end_vertex = pure_loop.vertices[1]
                THEN The({SearchLoops(m, pure_loop, heap, all, visited_verts) :
                            all \in {Append(all_loops, ChainEdges(candidate.loops))}})
                ELSE IF candidate.end_vertex \in visited_verts
                THEN SearchLoops(m, pure_loop, heap, all_loops, visited_verts)
                ELSE The({Expanded(candidate, x) :
                            x \in {Expand(m, candidate, {pure_loop.vertices[1]},
                                          candidate.end_vertex, 1, heap)}})
         IN The({Popped(popped.item, popped.heap) : popped \in {heappop(queue)}})

\* The search of lines 414-445 from the pure loop; searched: the queue was built.
SearchFrom(m, pure_loop) ==
    The({[halts |-> r.halts, val |-> r.val, searched |-> TRUE] :
           r \in {SearchLoops(m, pure_loop,
                              <<LoopSearchNode(Len(pure_loop.edges),
                                               Last(pure_loop.vertices), <<pure_loop>>)>>,
                              <<pure_loop.edge_set>>, {})}})

\* get_edge_loops without the return of line 412 for a closed pure loop.
get_edge_loops_search_always(m, edge) ==
    LET From(p) ==
            IF ~ p.halts THEN [halts |-> FALSE, val |-> <<>>, searched |-> FALSE]
            ELSE SearchFrom(m, p.val)
    IN The({From(p) : p \in {pure_edge_loop(m, edge)}})

get_edge_loops(m, edge) ==
    LET From(p) ==
            LET pure_loop == p.val
                all_loops == <<pure_loop.edge_set>>
            IN IF ~ p.halts THEN [halts |-> FALSE, val |-> <<>>, searched |-> FALSE]
               ELSE IF is_closed(pure_loop)
               THEN [halts |-> TRUE, val |-> all_loops, searched |-> FALSE]
               ELSE SearchFrom(m, pure_loop)
    IN The({From(p) : p \in {pure_edge_loop(m, edge)}})

\* One iteration of the while loop that never leaves it for the number of
\* loops found.
SearchIteration_uncapped(m, pure_loop, st) ==
    LET Left(did, queue, all_loops, visited_verts, halts) ==
            [did |-> did, queue |-> queue, all_loops |-> all_loops,
             visited_verts |-> visited_verts, halts |-> halts]
        Expanded(candidate, x) ==
            IF ~ x.halts THEN Left("diverge", st.queue, st.all_loops, st.visited_verts, FALSE)
            ELSE Left("expand", x.queue, st.all_loops,
                      st.visited_verts \cup {candidate.end_vertex}, TRUE)
        Popped(candidate, heap) ==
            IF candidate.end_vertex = pure_loop.vertices[1]
            THEN Left("record", heap, Append(st.all_loops, ChainEdges(candidate.loops)),
                      st.visited_verts, TRUE)
            ELSE IF candidate.end_vertex \in st.visited_verts
            THEN Left("skip", heap, st.all_loops, st.visited_verts, TRUE)
            ELSE The({Expanded(candidate, x) :
                        x \in {Expand(m, candidate, {pure_loop.vertices[1]},
                                      candidate.end_vertex, 1, heap)}})
    IN IF st.queue = <<>>
       THEN Left("exit", st.queue, st.all_loops, st.visited_verts, TRUE)
       ELSE The({Popped(popped.item, popped.heap) : popped \in {heappop(st.queue)}})

\* One iteration of the while loop of lines 419-444, from the test of line 419
\* to the next: st holds queue, all_loops and visited_verts, and did tells
\* what the iteration did, "exit" and "break" leaving the loop.
SearchIteration(m, pure_loop, st) ==
    LET Left(did, queue, all_loops, visited_verts, halts) ==
            [did |-> did, queue |-> queue, all_loops |-> all_loops,
             visited_verts |-> visited_verts, halts |-> halts]
        Expanded(candidate, x) ==
            IF ~ x.halts THEN Left("diverge", st.queue, st.all_loops, st.visited_verts, FALSE)
            ELSE Left("expand", x.queue, st.all_loops,
                      st.visited_verts \cup {candidate.end_vertex}, TRUE)
        Popped(candidate, heap) ==
            IF Len(st.all_loops) > MAX_EDGE_LOOPS
            THEN Left("break", heap, st.all_loops, st.visited_verts, TRUE)
            ELSE IF candidate.end_vertex = pure_loop.vertices[1]
            THEN Left("record", heap, Append(st.all_loops, ChainEdges(candidate.loops)),
                      st.visited_verts, TRUE)
            ELSE IF candidate.end_vertex \in st.visited_verts
            THEN Left("skip", heap, st.all_loops, st.visited_verts, TRUE)
            ELSE The({Expanded(candidate, x) :
                        x \in {Expand(m, candidate, {pure_loop.vertices[1]},
                                      candidate.end_vertex, 1, heap)}})
    IN IF st.queue = <<>>
       THEN Left("exit", st.queue, st.all_loops, st.visited_verts, TRUE)
       ELSE The({Popped(popped.item, popped.heap) : popped \in {heappop(st.queue)}})

\* Lines 409-417: get_edge_loops up to its while loop; did is "return" where
\* line 412 returns for a closed pure loop.
SearchEntry(m, edge) ==
    LET From(p) ==
            IF ~ p.halts
            THEN [did |-> "diverge", queue |-> <<>>, all_loops |-> <<>>,
                  visited_verts |-> {}, halts |-> FALSE, pure_loop |-> p.val]
            ELSE IF is_closed(p.val)
            THEN [did |-> "return", queue |-> <<>>, all_loops |-> <<p.val.edge_set>>,
                  visited_verts |-> {}, halts |-> TRUE, pure_loop |-> p.val]
            ELSE [did |-> "enter",
                  queue |-> <<LoopSearchNode(Len(p.val.edges), Last(p.val.vertices),
                                             <<p.val>>)>>,
                  all_loops |-> <<p.val.edge_set>>,
                  visited_verts |-> {}, halts |-> TRUE, pure_loop |-> p.val]
    IN The({From(p) : p \in {pure_edge_loop(m, edge)}})

(***************************************************************************)
(* Select Loop.  The cache is the record of the package-level variables    *)
(* current_mesh, current_loop and old_selection; an Optional value is a    *)
(* sequence of at most one element, <<>> for None.                         *)
(***************************************************************************)
\* bpy.ops.mesh.select_all(action='DESELECT'): every flag and the select
\* history are cleared.
select_all_deselect(s) ==
    [s EXCEPT !.verts = {}, !.edges = {}, !.faces = {}, !.history = <<>>]

\* bpy.ops.view3d.select(extend=False, location=coord) in edge mode.  hit is
\* the edge under the pointer, -1 when there is none: a hit deselects all and
\* selects the edge, which becomes active; a miss leaves the selection.
view3d_select(m, s, hit) ==
    IF hit = -1 THEN s
    ELSE The({history_add(t, "BMEdge", hit) :
                t \in {edge_select_set(m, select_all_deselect(s), hit, TRUE)}})

edge_under_mouse(m, s, hit) ==
    LET Found(snapshot, t) ==
            LET e == IF t.edges = {} THEN -1 ELSE Min(t.edges)
                Back(back) == [edge |-> e, raised |-> back.raised, sel |-> back.sel]
            IN The({Back(back) : back \in {restore(m, t, snapshot)}})
    IN The({Found(snapshot, t) :
              snapshot \in {from_context(m, s)},
              t \in {view3d_select(m, u, hit) :
                       u \in {set_select_mode(m, s, <<FALSE, TRUE, FALSE>>)}}})

\* for edge in edges: bm.edges[edge].select_set(select), from the i-th on.
RECURSIVE SetEdges(_, _, _, _, _)
SetEdges(m, s, edges, i, select) ==
    IF i > Len(edges) THEN s
    ELSE The({SetEdges(m, t, edges, i + 1, select) :
                t \in {edge_select_set(m, s, edges[i], select)}})

\* A test of the cache that leaves out the tracked mesh.
is_cache_obsolete_any_mesh(m, s, c, obj) ==
    /\ c.current_loop # <<>>
    /\ c.current_loop[1] # {}
    /\ ~ \A e \in c.current_loop[1] : e \in Edges(m) /\ e \in s.edges

\* Lines 484-487: the tracked mesh is another one, or an edge of the cached
\* loop is not selected or not there (IndexError).  None and the empty loop
\* are falsy.
is_cache_obsolete(m, s, c, obj) ==
    \/ c.current_mesh # <<obj>>
    \/ /\ c.current_loop # <<>>
       /\ c.current_loop[1] # {}
       /\ ~ \A e \in c.current_loop[1] : e \in Edges(m) /\ e \in s.edges

\* loops.index(current_loop), 1-based.
LoopIndex(loops, loop) == Min({i \in DOMAIN loops : loops[i] = loop})

\* Lines 493-513: the loop to select next, the snapshot to restore before it
\* and the selection as the special case of lines 500-504 leaves it.
AdvanceCycle(m, s, c, loops, extend) ==
    IF c.current_loop = <<>> \/ c.current_loop[1] \notin Range(loops)
    THEN IF ~ extend
         THEN [next_loop |-> loops[1], old_selection |-> <<>>, sel |-> s]
         ELSE IF loops[1] \subseteq s.edges
         THEN LET Off(t) ==
                    [next_loop |-> {}, old_selection |-> <<from_context(m, t)>>,
                     sel |-> SetEdges(m, t, SortAsc(loops[1]), 1, TRUE)]
              IN The({Off(t) : t \in {SetEdges(m, s, SortAsc(loops[1]), 1, FALSE)}})
         ELSE [next_loop |-> loops[1], old_selection |-> <<from_context(m, s)>>, sel |-> s]
    ELSE LET all == IF extend THEN Append(loops, {}) ELSE loops
         IN [next_loop |-> all[(LoopIndex(all, c.current_loop[1]) % Len(all)) + 1],
             old_selection |-> IF extend THEN c.old_selection ELSE <<>>,
             sel |-> s]

\* Lines 476-522, the smart path of EdgySelectLoop.execute.  result is ""
\* when the call does not return a result: restore raised, or get_edge_loops
\* does not halt.
SmartSelect(m, s, c, obj, extend, hit) ==
    LET Gone(u, result, report) ==
            [result |-> result, report |-> report, edge |-> u.edge, halts |-> TRUE,
             raised |-> u.raised, obsolete |-> FALSE, loops |-> <<>>, next_loop |-> {},
             sel |-> u.sel, cache |-> c]
        Chosen(u, g, obsolete, c1, nx) ==
            LET c2 == [current_mesh |-> c1.current_mesh, current_loop |-> <<nx.next_loop>>,
                       old_selection |-> nx.old_selection]
                Done(raised, t) ==
                    [result |-> IF raised THEN "" ELSE "FINISHED", report |-> "",
                     edge |-> u.edge, halts |-> TRUE, raised |-> raised,
                     obsolete |-> obsolete, loops |-> g.val, next_loop |-> nx.next_loop,
                     sel |-> t, cache |-> c2]
                Selected_(t) ==
                    The({Done(FALSE, w) :
                           w \in {select_flush_mode(m, v) :
                                    v \in {SetEdges(m, t, SortAsc(nx.next_loop), 1, TRUE)}}})
                Restored(back) ==
                    IF back.raised THEN Done(TRUE, back.sel) ELSE Selected_(back.sel)
            IN IF nx.old_selection # <<>>
               THEN The({Restored(back) : back \in {restore(m, nx.sel, nx.old_selection[1])}})
               ELSE The({Selected_(t) : t \in {select_all_deselect(nx.sel)}})
        Checked(u, g, obsolete) ==
            LET Reset(c1) ==
                    The({Chosen(u, g, obsolete, c1, nx) :
                           nx \in {AdvanceCycle(m, u.sel, c1, g.val, extend)}})
            IN The({Reset(c1) :
                      c1 \in {IF obsolete
                              THEN [current_mesh |-> <<obj>>, current_loop |-> <<>>,
                                    old_selection |-> <<>>]
                              ELSE c}})
        Looped(u, g) ==
            IF ~ g.halts THEN [Gone(u, "", "") EXCEPT !.halts = FALSE]
            ELSE The({Checked(u, g, obsolete) :
                        obsolete \in {is_cache_obsolete(m, u.sel, c, obj)}})
        Pointed(u) ==
            IF u.raised THEN Gone(u, "", "")
            ELSE IF u.edge = -1 THEN Gone(u, "CANCELLED", "WARNING")
            ELSE The({Looped(u, g) : g \in {get_edge_loops(m, u.edge)}})
    IN The({Pointed(u) : u \in {edge_under_mouse(m, s, hit)}})

(***************************************************************************)
(* Grow/Shrink Selection.  The editor's own select_more, select_less,      *)
(* loop_to_region and region_to_loop are not part of the package: native   *)
(* is the selection they leave when the operator runs them.                *)
(***************************************************************************)
\* util.report_finished: the report and the result it always returns.
report_finished(message, warn) ==
    [result |-> "FINISHED", level |-> IF warn THEN "WARNING" ELSE "INFO", message |-> message]

\* EdgyResizeSelection.execute.  path tells which of the native operators
\* ran: none, the select_more or select_less step alone, or the step between
\* loop_to_region and region_to_loop; raised that restore raised, and the
\* call has no result then.
EdgyResizeSelection_execute(m, s, direction, mode, native) ==
    LET Ended(r, t, path) ==
            [result |-> r.result, level |-> r.level, message |-> r.message, sel |-> t,
             path |-> path, raised |-> FALSE]
        Restored(back, path) ==
            IF back.raised
            THEN [result |-> "", level |-> "", message |-> "", sel |-> back.sel,
                  path |-> path, raised |-> TRUE]
            ELSE Ended(report_finished("Can't shrink selection (no vertices would remain)", TRUE),
                       back.sel, path)
        Open(info) == info.branching # <<>> \/ info.endpoints # <<>>
        Grow(info, snapshot, face_mode) ==
            IF info.all_selected_verts = {}
            THEN Ended(report_finished("No vertices selected", TRUE), s, "none")
            ELSE IF face_mode
            THEN Ended(report_finished("Grew face selection", FALSE), native, "step")
            ELSE IF native.edges = snapshot.selected_edges
            THEN Ended(report_finished("Can't grow boundary selection", TRUE), native,
                       IF Open(info) THEN "open boundary" ELSE "boundary")
            ELSE Ended(report_finished("Grew boundary selection", FALSE), native,
                       IF Open(info) THEN "open boundary" ELSE "boundary")
        Shrunk(snapshot, face_mode, path) ==
            IF native.verts = {}
            THEN The({Restored(back, path) : back \in {restore(m, native, snapshot)}})
            ELSE IF face_mode
            THEN Ended(report_finished("Shrank face selection", FALSE), native, path)
            ELSE Ended(report_finished("Shrank boundary selection", FALSE), native, path)
        Shrink(info, snapshot, face_mode) ==
            IF info.all_selected_verts = {}
            THEN Ended(report_finished("No vertices selected", TRUE), s, "none")
            ELSE IF face_mode THEN Shrunk(snapshot, face_mode, "step")
            ELSE IF Open(info)
            THEN Ended(report_finished("Can't shrink boundary selection", TRUE), s, "none")
            ELSE Shrunk(snapshot, face_mode, "boundary")
        Execute(info, snapshot) ==
            IF direction = "GROW"
            THEN IF mode = "BLENDER_FACE"
                 THEN Ended(report_finished("Grew face selection (Blender default)", FALSE),
                            native, "step")
                 ELSE IF mode = "BLENDER_EDGE"
                 THEN Ended(report_finished("Grew edge selection (Blender default)", FALSE),
                            native, "step")
                 ELSE IF mode = "AUTOMATIC"
                 THEN Grow(info, snapshot, s.mode[3])
                 ELSE Grow(info, snapshot, mode = "FACES")
            ELSE IF mode = "BLENDER_FACE"
                 THEN Ended(report_finished("Shrank face selection (Blender default)", FALSE),
                            native, "step")
                 ELSE IF mode = "BLENDER_EDGE"
                 THEN Ended(report_finished("Shrank edge selection (Blender default)", FALSE),
                            native, "step")
                 ELSE IF mode = "AUTOMATIC"
                 THEN Shrink(info, snapshot, s.mode[3] \/ Open(info))
                 ELSE Shrink(info, snapshot, mode = "FACES")
    IN The({Execute(info, snapshot) :
              info \in {from_bmesh(m, s)}, snapshot \in {from_context(m, s)}})

(***************************************************************************)
(* The state machine: a mesh, and the last call with what it returned      *)
(* (halts = FALSE: the call never returns).                                *)
(***************************************************************************)
\* Optional values are sequences of at most one element: <<>> is None.
NoCache == [current_mesh |-> <<>>, current_loop |-> <<>>, old_selection |-> <<>>]

\* The package has just been loaded and one object is in edit mode.
CacheIdle ==
    /\ object = "A"
    /\ cache = NoCache

None == [op |-> "none"]

NoSaved == [mode |-> <<FALSE, FALSE, FALSE>>]

NoSelection ==
    [mode |-> <<FALSE, TRUE, FALSE>>, verts |-> {}, edges |-> {}, faces |-> {},
     history |-> <<>>]

\* The functions below read the mesh alone: the selection stays as it is.
SelectionIdle ==
    /\ sel = NoSelection
    /\ saved = NoSaved
    /\ phase = "idle"
    /\ steps = 0

Init ==
    /\ mesh \in Meshes
    /\ ret = None
    /\ SelectionIdle
    /\ CacheIdle

\* find_loop(edge, start, stop_set) called on its own, start a vertex of edge.
CallFindLoop ==
    /\ ret = None
    /\ \E edge \in Edges(mesh), stop_set \in SUBSET Verts(mesh) :
       \E start \in edge_verts(mesh, edge) :
       \E r \in {FindLoopRun(mesh, edge, start, stop_set)} :
             ret' = [op |-> "find_loop", edge |-> edge, start |-> start,
                     stop_set |-> stop_set, halts |-> r.halts, why |-> r.why,
                     val |-> LoopOf(r)]
    /\ UNCHANGED <<mesh, sel, saved, phase, steps, object, cache>>

CallPureEdgeLoops ==
    /\ ret = None
    /\ \E order \in Perms(PoleSet(mesh)) :
       \E r \in {pure_edge_loops(mesh, order)} :
             ret' = [op |-> "pure_edge_loops", halts |-> r.halts, val |-> r.val]
    /\ UNCHANGED <<mesh, sel, saved, phase, steps, object, cache>>

CallPureEdgeLoop ==
    /\ ret = None
    /\ \E edge \in Edges(mesh) :
       \E r \in {pure_edge_loop(mesh, edge)} :
             ret' = [op |-> "pure_edge_loop", edge |-> edge, halts |-> r.halts, val |-> r.val]
    /\ UNCHANGED <<mesh, sel, saved, phase, steps, object, cache>>

CallGetEdgeLoops ==
    /\ ret = None
    /\ \E edge \in Edges(mesh) :
       \E r \in {get_edge_loops(mesh, edge)} :
             ret' = [op |-> "get_edge_loops", edge |-> edge, halts |-> r.halts,
                     val |-> r.val, searched |-> r.searched]
    /\ UNCHANGED <<mesh, sel, saved, phase, steps, object, cache>>

Next ==
    \/ CallFindLoop
    \/ CallPureEdgeLoops
    \/ CallPureEdgeLoop
    \/ CallGetEdgeLoops

Spec == Init /\ [][Next]_vars

(***************************************************************************)
(* The specification of the shortest path finder.                          *)
(***************************************************************************)
MaxExclude == 3

InitPath ==
    /\ mesh \in PathMeshes
    /\ ret = None
    /\ SelectionIdle
    /\ CacheIdle

CallFindShortestPath ==
    /\ ret = None
    /\ \E start \in Verts(mesh), end \in Verts(mesh), desc \in BOOLEAN :
       \E exclude_indices \in {X \in SUBSET Edges(mesh) : Cardinality(X) <= MaxExclude} :
       \E r \in {find_shortest_path(mesh, start, end, exclude_indices, desc)} :
             ret' = [op |-> "find_shortest_path", start |-> start, end |-> end,
                     exclude_indices |-> exclude_indices, found |-> r.found,
                     path |-> r.path]
    /\ UNCHANGED <<mesh, sel, saved, phase, steps, object, cache>>

NextPath == CallFindShortestPath

SpecPath == InitPath /\ [][NextPath]_vars

(***************************************************************************)
(* The specification of the selection snapshot and of close_loop: an edit  *)
(* session on a mesh in which the user and other scripts write selection   *)
(* flags, change the select mode and delete a face, a caller captures a    *)
(* snapshot or constructs one and restores it, and close_loop runs.        *)
(***************************************************************************)
MaxWrites == 2

\* A triangle face on the vertices 0, 1, 2 and a wire edge apart from it.
TriangleAndWire ==
    MkMesh(5, FromSeq(<<<<0, 1>>, <<1, 2>>, <<0, 2>>, <<3, 4>>>>), FromSeq(<<{0, 1, 2}>>), FALSE)

SelMeshes == {TriangleAndWire}

Modes == (BOOLEAN \X BOOLEAN \X BOOLEAN) \ {<<FALSE, FALSE, FALSE>>}

InMode(mode, kind) ==
    \/ kind = "BMVert" /\ mode[1]
    \/ kind = "BMEdge" /\ mode[2]
    \/ kind = "BMFace" /\ mode[3]

\* The selection the editor shows after the user picked the elements P of the
\* mode's first kind: the other kinds follow them.
Picked(m, mode, P) ==
    IF mode[1]
    THEN [mode |-> mode, verts |-> P \cap Verts(m),
          edges |-> {e \in Edges(m) : edge_verts(m, e) \subseteq P},
          faces |-> {f \in Faces(m) : face_verts(m, f) \subseteq P}, history |-> <<>>]
    ELSE IF mode[2]
    THEN [mode |-> mode, verts |-> UNION {edge_verts(m, e) : e \in P \cap Edges(m)},
          edges |-> P \cap Edges(m),
          faces |-> {f \in Faces(m) : m.fe[f] \subseteq P}, history |-> <<>>]
    ELSE [mode |-> mode, verts |-> UNION {face_verts(m, f) : f \in P \cap Faces(m)},
          edges |-> UNION {m.fe[f] : f \in P \cap Faces(m)},
          faces |-> P \cap Faces(m), history |-> <<>>]

Histories(m, s) ==
    {<<>>} \cup {<<<<kind, i>>>> : kind \in {k \in Kinds : InMode(s.mode, k)},
                                 i \in Verts(m) \cup Edges(m) \cup Faces(m)}

EditorSelections(m) ==
    UNION {{[s EXCEPT !.history = h] :
                h \in {g \in Histories(m, s) : g = <<>> \/ g[1][2] \in Selected(s, g[1][1])}} :
           s \in {Picked(m, mode, P) : mode \in Modes, P \in SUBSET Verts(m)}}

InitSel ==
    /\ mesh \in SelMeshes
    /\ sel \in EditorSelections(mesh)
    /\ saved = NoSaved
    /\ phase = "idle"
    /\ steps = 0
    /\ ret = None
    /\ CacheIdle

\* element.select = select, written by the user's scripts.
WriteFlag ==
    /\ phase # "done"
    /\ steps < MaxWrites
    /\ \E kind \in Kinds, select \in BOOLEAN :
       \E i \in Items(mesh, kind) : sel' = elem_select_set(mesh, sel, kind, i, select)
    /\ steps' = steps + 1
    /\ UNCHANGED <<mesh, saved, phase, ret, object, cache>>

\* tool_settings.mesh_select_mode = mode, written by the user or a script.
ChangeMode ==
    /\ phase # "done"
    /\ steps < MaxWrites
    /\ \E mode \in Modes \ {sel.mode} : sel' = set_select_mode(mesh, sel, mode)
    /\ steps' = steps + 1
    /\ UNCHANGED <<mesh, saved, phase, ret, object, cache>>

\* The user deletes the face of the highest index: its flag and its history
\* entry go with it, the other elements keep their indices.
DeleteFace ==
    /\ phase # "done"
    /\ steps < MaxWrites
    /\ mesh.nf > 0
    /\ LET f == mesh.nf - 1
           Keep(h) == h # <<"BMFace", f>>
       IN /\ mesh' = [mesh EXCEPT !.nf = f, !.fe = [g \in 0 .. f - 1 |-> mesh.fe[g]]]
          /\ sel' = [sel EXCEPT !.faces = @ \ {f}, !.history = SelectSeq(@, Keep)]
    /\ phase' = IF phase = "captured" THEN "edited" ELSE phase
    /\ steps' = steps + 1
    /\ UNCHANGED <<saved, ret, object, cache>>

Capture ==
    /\ phase = "idle"
    /\ saved' = from_context(mesh, sel)
    /\ phase' = "captured"
    /\ UNCHANGED <<mesh, sel, steps, ret, object, cache>>

\* A caller builds the snapshot itself, with an active reference of any type
\* and an index that is in range for every kind (0) or for none (the number
\* of vertices, which no index of an edge or a face of these meshes reaches).
Construct ==
    /\ phase = "idle"
    /\ \E active_type \in Kinds \cup {"NoneType"}, active \in {0, mesh.nv} :
          saved' = SavedSelectionState(sel.mode, sel.verts, sel.edges, sel.faces,
                                       active_type, active)
    /\ phase' = "constructed"
    /\ UNCHANGED <<mesh, sel, steps, ret, object, cache>>

Restore ==
    /\ phase \in {"captured", "edited", "constructed"}
    /\ \E r \in {restore(mesh, sel, saved)} :
          /\ sel' = r.sel
          /\ ret' = [op |-> "restore", raised |-> r.raised, snapshot |-> phase]
    /\ phase' = "done"
    /\ UNCHANGED <<mesh, saved, steps, object, cache>>

CallCloseLoop ==
    /\ phase = "idle"
    /\ \E desc \in BOOLEAN :
       \E r \in {CloseLoop_execute(mesh, sel, desc)} :
             /\ sel' = r.sel
             /\ ret' = [op |-> "close_loop", result |-> r.result, report |-> r.report,
                        no_path |-> r.no_path, raised |-> r.raised, before |-> sel]
    /\ phase' = "done"
    /\ UNCHANGED <<mesh, saved, steps, object, cache>>

NextSel ==
    \/ WriteFlag
    \/ ChangeMode
    \/ DeleteFace
    \/ Capture
    \/ Construct
    \/ Restore
    \/ CallCloseLoop

SpecSel == InitSel /\ [][NextSel]_vars

(***************************************************************************)
(* The specification of close_loop on larger meshes: the user picks up to  *)
(* MaxPicked elements in some select mode, one of them possibly active,    *)
(* and close_loop runs once.                                               *)
(***************************************************************************)
MaxPicked == 4

\* Two triangle faces apart from each other, on the vertices 0, 1, 2 and 3, 4, 5.
TwoTriangles ==
    MkMesh(6,
           FromSeq(<<<<0, 1>>, <<1, 2>>, <<0, 2>>, <<3, 4>>, <<4, 5>>, <<3, 5>>>>),
           FromSeq(<<{0, 1, 2}, {3, 4, 5}>>),
           FALSE)

CloseMeshes == {Grid3, TwoTriangles}

\* No active element, or the picked element of the lowest index of a kind of
\* the select mode.
ActiveChoices(s) ==
    {<<>>} \cup {<<<<kind, Min(Selected(s, kind))>>>> :
                    kind \in {k \in Kinds : InMode(s.mode, k) /\ Selected(s, k) # {}}}

PickedSelections(m) ==
    UNION {{[s EXCEPT !.history = h] : h \in ActiveChoices(s)} :
           s \in {Picked(m, mode, P) :
                    mode \in Modes,
                    P \in {Q \in SUBSET (0 .. Max({m.nv, m.ne, m.nf}) - 1) :
                             Cardinality(Q) <= MaxPicked}}}

InitClose ==
    /\ mesh \in CloseMeshes
    /\ sel \in PickedSelections(mesh)
    /\ saved = NoSaved
    /\ phase = "idle"
    /\ steps = 0
    /\ ret = None
    /\ CacheIdle

NextClose == CallCloseLoop

SpecClose == InitClose /\ [][NextClose]_vars

(***************************************************************************)
(* The specification of select_loop: an edit session in which the user     *)
(* invokes select_loop at an edge or beside every edge, with or without    *)
(* extend, in smart or default mode, and between invocations picks another *)
(* selection, changes the select mode, deletes a wire edge or goes over to *)
(* a copy of the object.  A session has at most MaxCalls steps: a first    *)
(* smart invocation anywhere, at most one change by the user among the     *)
(* first MaxWrites steps, and smart invocations that each repeat the one   *)
(* before or, once, go to another place or option; an invocation that      *)
(* hands over to the editor's own loop_select ends the session.            *)
(***************************************************************************)
MaxCalls == 5

MaxStart == 1

\* The complete graph on 4 vertices with a triangle face and a quad face.
TetraTwoFaces ==
    MkMesh(4,
           FromSeq(<<<<0, 1>>, <<0, 2>>, <<0, 3>>, <<1, 2>>, <<1, 3>>, <<2, 3>>>>),
           FromSeq(<<{0, 1, 3}, {0, 1, 4, 5}>>),
           FALSE)

LoopMeshes == {TriangleAndWire, TetraTwoFaces}

\* The selections the editor leaves when the user picks elements anew.
UserPicks(m, mode) ==
    {Picked(m, mode, P) :
        P \in {Q \in SUBSET (0 .. Max({m.nv, m.ne, m.nf}) - 1) : Cardinality(Q) <= MaxStart}}

InitLoop ==
    /\ mesh \in LoopMeshes
    /\ sel \in UNION {UserPicks(mesh, mode) : mode \in Modes}
    /\ saved = NoSaved
    /\ phase = "idle"
    /\ steps = 0
    /\ ret = None
    /\ CacheIdle

\* This invocation follows one at the same place with the same options; every
\* other action in between clears ret.
Repeats(extend, hit) ==
    /\ ret.op = "select_loop"
    /\ ret.result = "FINISHED"
    /\ ret.hit = hit
    /\ ret.extend = extend

\* EdgySelectLoop.execute in smart mode outside face mode (lines 476-522).
\* ret also keeps what the call met: the cached loop, whether the tracked mesh
\* was another one (differs) and whether an edge of the cached loop was not
\* selected or not there (broken); and of the invocations repeated so far
\* their count n, the selected edges and vertices before the first and
\* whether the cache held no loop of the edge then (clean).
SelectLoopSmart ==
    /\ steps < MaxCalls
    /\ phase # "done"
    /\ ~ sel.mode[3]
    /\ \E extend \in BOOLEAN, hit \in Edges(mesh) \cup {-1} :
       \E r \in {SmartSelect(mesh, sel, cache, object, extend, hit)} :
          /\ ret.op = "select_loop" => Repeats(extend, hit) \/ (phase = "idle" /\ ~ ret.moved)
          /\ sel' = r.sel
          /\ cache' = r.cache
          /\ ret' = [op |-> "select_loop", smart |-> TRUE, extend |-> extend, hit |-> hit,
                     edge |-> r.edge, result |-> r.result, report |-> r.report,
                     halts |-> r.halts, raised |-> r.raised, next_loop |-> r.next_loop,
                     cached |-> cache.current_loop,
                     differs |-> cache.current_mesh # <<object>>,
                     broken |-> /\ cache.current_loop # <<>>
                                /\ \E e \in cache.current_loop[1] :
                                      e \notin Edges(mesh) \/ e \notin sel.edges,
                     moved |-> ret.op = "select_loop" /\ (ret.moved \/ ~ Repeats(extend, hit)),
                     n |-> IF Repeats(extend, hit) THEN ret.n + 1 ELSE 1,
                     start |-> IF Repeats(extend, hit) THEN ret.start
                               ELSE [edges |-> sel.edges, verts |-> sel.verts],
                     clean |-> IF Repeats(extend, hit) THEN ret.clean
                               ELSE \/ cache.current_loop = <<>>
                                    \/ cache.current_loop[1] \notin Range(r.loops)]
    /\ steps' = steps + 1
    /\ UNCHANGED <<mesh, saved, phase, object>>

\* EdgySelectLoop.execute in default mode or in face mode (lines 472-474):
\* the editor's own loop_select runs and leaves a selection of its choice; the
\* cache is not read or written.
SelectLoopNative ==
    /\ steps < MaxCalls
    /\ phase # "done"
    /\ \E mode \in {"SMART", "DEFAULT"} :
          /\ mode = "DEFAULT" \/ sel.mode[3]
          /\ sel' \in UserPicks(mesh, sel.mode)
          /\ ret' = [op |-> "select_loop", smart |-> FALSE, mode |-> mode, result |-> "NATIVE"]
    /\ phase' = "done"
    /\ steps' = steps + 1
    /\ UNCHANGED <<mesh, saved, object, cache>>

\* The user picks a selection anew.
UserPick ==
    /\ steps < MaxWrites
    /\ phase = "idle"
    /\ sel' \in UserPicks(mesh, sel.mode) \ {sel}
    /\ ret' = None
    /\ phase' = "edited"
    /\ steps' = steps + 1
    /\ UNCHANGED <<mesh, saved, object, cache>>

\* The user changes the select mode.
UserMode ==
    /\ steps < MaxWrites
    /\ phase = "idle"
    /\ \E mode \in Modes \ {sel.mode} : sel' = set_select_mode(mesh, sel, mode)
    /\ ret' = None
    /\ phase' = "edited"
    /\ steps' = steps + 1
    /\ UNCHANGED <<mesh, saved, object, cache>>

\* The user selects the edge of the highest index, a wire edge, and deletes
\* it ("only edges and faces"): the vertices stay, the other elements keep
\* their indices, and the delete operator leaves nothing selected.
DeleteWireEdge ==
    /\ steps < MaxWrites
    /\ phase = "idle"
    /\ mesh.ne > 0
    /\ edge_link_faces(mesh, mesh.ne - 1) = {}
    /\ LET e == mesh.ne - 1
           Others(es) == SelectSeq(es, LAMBDA d : d # e)
       IN mesh' = [mesh EXCEPT !.ne = e,
                               !.ev = [d \in 0 .. e - 1 |-> mesh.ev[d]],
                               !.link = [v \in DOMAIN mesh.link |-> Others(mesh.link[v])]]
    /\ sel' = select_all_deselect(sel)
    /\ ret' = None
    /\ phase' = "edited"
    /\ steps' = steps + 1
    /\ UNCHANGED <<saved, object, cache>>

\* The user goes over to a copy of the object, which has the same mesh and
\* selection under another identity.
SwitchObject ==
    /\ steps < MaxWrites
    /\ phase = "idle"
    /\ object' = "B"
    /\ ret' = None
    /\ phase' = "edited"
    /\ steps' = steps + 1
    /\ UNCHANGED <<mesh, sel, saved, cache>>

NextLoop ==
    \/ SelectLoopSmart
    \/ SelectLoopNative
    \/ UserPick
    \/ UserMode
    \/ DeleteWireEdge
    \/ SwitchObject

SpecLoop == InitLoop /\ [][NextLoop]_vars

(***************************************************************************)
(* The specification of resize_selection: the user picks up to MaxPicked   *)
(* elements in some select mode and the operator runs once, in either      *)
(* direction and any of its modes; the editor's own operators leave a      *)
(* selection of theirs.                                                    *)
(***************************************************************************)
ResizeMeshes == {TriangleAndWire, TwoTriangles}

Directions == {"GROW", "SHRINK"}

ResizeModes == {"AUTOMATIC", "BOUNDARIES", "FACES", "BLENDER_FACE", "BLENDER_EDGE"}

\* The select mode the editor's operators leave: region_to_loop, the last of
\* the boundary steps, leaves face-only mode for edge mode.
NativeMode(s, boundary) ==
    IF boundary /\ s.mode = <<FALSE, FALSE, TRUE>> THEN <<FALSE, TRUE, FALSE>> ELSE s.mode

\* The selections the editor's operators can leave from s: elements picked in
\* the mode, the active element kept where it is still selected.  select_less
\* alone selects no vertex, select_more alone deselects none; on the path "none"
\* no operator runs.
NativeOutcomes(m, s, direction, path) ==
    LET Alive(t) ==
            SelectSeq(s.history, LAMBDA h : InMode(t.mode, h[1]) /\ h[2] \in Selected(t, h[1]))
        all == {[t EXCEPT !.history = Alive(t)] :
                  t \in {Picked(m, NativeMode(s, path # "step"), P) :
                           P \in {Q \in SUBSET (0 .. Max({m.nv, m.ne, m.nf}) - 1) :
                                    Cardinality(Q) <= MaxPicked}}}
    IN IF path = "none" THEN {s}
       ELSE IF path # "step" THEN all
       ELSE IF direction = "SHRINK" THEN {t \in all : t.verts \subseteq s.verts}
       ELSE {t \in all : s.verts \subseteq t.verts}

Paths == {"none", "step", "boundary", "open boundary"}

InitResize ==
    /\ mesh \in ResizeMeshes
    /\ sel \in PickedSelections(mesh)
    /\ saved = NoSaved
    /\ phase = "idle"
    /\ steps = 0
    /\ ret = None
    /\ CacheIdle

\* resize_selection runs once; the editor's operators on its path leave native.
CallResizeSelection ==
    /\ phase = "idle"
    /\ \E direction \in Directions, mode \in ResizeModes, path \in Paths :
       \E native \in NativeOutcomes(mesh, sel, direction, path) :
       \E r \in {EdgyResizeSelection_execute(mesh, sel, direction, mode, native)} :
          /\ r.path = path
          /\ sel' = r.sel
          /\ ret' = [op |-> "resize_selection", direction |-> direction, mode |-> mode,
                     result |-> r.result, level |-> r.level, message |-> r.message,
                     path |-> r.path, raised |-> r.raised, native |-> native, before |-> sel]
    /\ phase' = "done"
    /\ UNCHANGED <<mesh, saved, steps, object, cache>>

NextResize == CallResizeSelection

SpecResize == InitResize /\ [][NextResize]_vars

(***************************************************************************)
(* The specification of get_edge_loops step by step, on fans: two hub      *)
(* vertices 0 and 1 joined by edge 0, and k rungs, each a vertex joined to *)
(* both hubs by wire edges.  Every rung closes the pure loop of edge 0 in  *)
(* one more way, so a fan of more than MAX_EDGE_LOOPS rungs has more       *)
(* closed compositions than get_edge_loops may return.  get_edge_loops is  *)
(* entered once and its while loop runs one iteration per step; ret holds  *)
(* the locals of the call.                                                 *)
(***************************************************************************)
MaxFan == 12

\* Rung i has the vertex i + 1 and the edges 2i - 1 to hub 1 and 2i to hub 0.
Fan(k) ==
    MkMesh(k + 2,
           [e \in 0 .. 2 * k |->
              IF e = 0 THEN <<0, 1>>
              ELSE IF e % 2 = 1 THEN <<1, (e + 1) \div 2 + 1>>
              ELSE <<0, e \div 2 + 1>>],
           FromSeq(<<>>),
           FALSE)

FanMeshes == {Fan(k) : k \in 1 .. MaxFan}

InitFan ==
    /\ mesh \in FanMeshes
    /\ ret = None
    /\ SelectionIdle
    /\ CacheIdle

\* The locals of get_edge_loops after r; done: the function has returned or
\* will never return.
Searching(edge, pure_loop, r) ==
    [op |-> "search", edge |-> edge, pure_loop |-> pure_loop, did |-> r.did,
     queue |-> r.queue, all_loops |-> r.all_loops, visited_verts |-> r.visited_verts,
     halts |-> r.halts, done |-> r.did \in {"return", "exit", "break", "diverge"}]

GetEdgeLoopsEnter ==
    /\ ret = None
    /\ \E edge \in Edges(mesh) :
       \E r \in {SearchEntry(mesh, edge)} : ret' = Searching(edge, r.pure_loop, r)
    /\ UNCHANGED <<mesh, sel, saved, phase, steps, object, cache>>

GetEdgeLoopsIterate ==
    /\ ret.op = "search"
    /\ ~ ret.done
    /\ \E r \in {SearchIteration(mesh, ret.pure_loop, ret)} :
          ret' = Searching(ret.edge, ret.pure_loop, r)
    /\ UNCHANGED <<mesh, sel, saved, phase, steps, object, cache>>

NextFan ==
    \/ GetEdgeLoopsEnter
    \/ GetEdgeLoopsIterate

SpecFan == InitFan /\ [][NextFan]_vars

(***************************************************************************)
(* The specification of get_edge_loops step by step on the meshes of Spec: *)
(* the iterations of the while loop are steps, so that the node an         *)
(* iteration pops, with its chain of segments, is in the state before it.  *)
(***************************************************************************)
SpecSearch == Init /\ [][NextFan]_vars

(***************************************************************************)
(* C1: when pure_edge_loops returns, every edge of the mesh is in the edge *)
(* set of exactly one returned loop.                                       *)
(***************************************************************************)
IsPartition(m, loops) ==
    \A e \in Edges(m) : Cardinality({i \in DOMAIN loops : e \in loops[i].edge_set}) = 1

C1_Partition ==
    (ret.op = "pure_edge_loops" /\ ret.halts) => IsPartition(mesh, ret.val)

(***************************************************************************)
(* C2: a path returned by find_shortest_path(mesh, start, end, X) begins   *)
(* at start, ends at end, joins consecutive vertices by edges not in X,    *)
(* and has the minimum edge count among such paths.                        *)
(***************************************************************************)
Joined(m, X, a, b) == \E e \in Edges(m) \ X : edge_verts(m, e) = {a, b}

\* The graph distance, by levels; -1 when end is not reachable.
RECURSIVE LevelDistance(_, _, _, _, _, _)
LevelDistance(m, X, frontier, seen, end, d) ==
    IF end \in frontier THEN d
    ELSE IF frontier = {} THEN -1
    ELSE LET next == {v \in Verts(m) \ seen : \E u \in frontier : Joined(m, X, u, v)}
         IN The({LevelDistance(m, X, n, seen \cup n, end, d + 1) : n \in {next}})

Distance(m, X, start, end) == LevelDistance(m, X, {start}, {start}, end, 0)

IsPathAvoiding(m, X, start, end, path) ==
    /\ Len(path) >= 1
    /\ path[1] = start
    /\ Last(path) = end
    /\ \A i \in 1 .. Len(path) - 1 : Joined(m, X, path[i], path[i + 1])

C2_ShortestPath ==
    (ret.op = "find_shortest_path" /\ ret.found) =>
        /\ IsPathAvoiding(mesh, ret.exclude_indices, ret.start, ret.end, ret.path)
        /\ Len(ret.path) - 1 = Distance(mesh, ret.exclude_indices, ret.start, ret.end)

\* A returned path of three edges or more, around excluded edges, in a mesh
\* with faces.
C2_Witness ==
    /\ ret.op = "find_shortest_path"
    /\ ret.found
    /\ Len(ret.path) >= 4
    /\ ret.exclude_indices # {}
    /\ mesh.nf > 0

(***************************************************************************)
(* C3: find_shortest_path returns "no path" if and only if end is not      *)
(* reachable from start with the edges of X removed.                       *)
(***************************************************************************)
C3_NoPathIffUnreachable ==
    ret.op = "find_shortest_path" =>
        (~ ret.found <=> Distance(mesh, ret.exclude_indices, ret.start, ret.end) = -1)

\* "No path" where the mesh joins start and end and only X cuts them apart.
C3_Witness ==
    /\ ret.op = "find_shortest_path"
    /\ ~ ret.found
    /\ Distance(mesh, {}, ret.start, ret.end) > 0

(***************************************************************************)
(* C4: the list returned by get_edge_loops is ordered by non-decreasing    *)
(* edge count, the count being the size of the recorded edge set.          *)
(***************************************************************************)
C4_SortedBySize ==
    (ret.op = "get_edge_loops" /\ ret.halts) =>
        \A i \in 1 .. Len(ret.val) - 1 :
            Cardinality(ret.val[i]) <= Cardinality(ret.val[i + 1])

(***************************************************************************)
(* C5: the list returned by get_edge_loops never contains the same edge    *)
(* set twice.                                                              *)
(***************************************************************************)
C5_NoDuplicates ==
    (ret.op = "get_edge_loops" /\ ret.halts) =>
        \A i, j \in DOMAIN ret.val : ret.val[i] = ret.val[j] => i = j

(***************************************************************************)
(* C6: when the pure loop of the given edge is closed, get_edge_loops      *)
(* returns exactly one entry, that loop's edge set.                        *)
(***************************************************************************)
C6_ClosedSingle ==
    (/\ ret.op = "get_edge_loops"
     /\ pure_edge_loop(mesh, ret.edge).halts
     /\ is_closed(pure_edge_loop(mesh, ret.edge).val)) =>
        /\ ret.halts
        /\ ret.val = <<pure_edge_loop(mesh, ret.edge).val.edge_set>>
        /\ ~ ret.searched

\* get_edge_loops has returned for an edge on a closed pure loop of three
\* edges or more, in a mesh that has other edges too.
C6_Witness ==
    /\ ret.op = "get_edge_loops"
    /\ ret.halts
    /\ pure_edge_loop(mesh, ret.edge).halts
    /\ is_closed(pure_edge_loop(mesh, ret.edge).val)
    /\ Cardinality(ret.val[1]) >= 3
    /\ Cardinality(ret.val[1]) < mesh.ne

(***************************************************************************)
(* C7: pure_edge_loop(mesh, e) returns a loop that contains e and is       *)
(* maximal: when it is open, each of its two end vertices is a pole or has *)
(* no incident edge that is face-disjoint from the loop's end edge.        *)
(***************************************************************************)
CannotExtend(m, v, end_edge) ==
    \/ is_pole(m, v)
    \/ ~ \E e \in Range(link_edges(m, v)) : FaceDisjoint(m, e, end_edge)

IsMaximal(m, loop) ==
    ~ is_closed(loop) =>
        /\ CannotExtend(m, loop.vertices[1], loop.edges[1])
        /\ CannotExtend(m, Last(loop.vertices), Last(loop.edges))

C7_Maximal ==
    (ret.op = "pure_edge_loop" /\ ret.halts) =>
        /\ ret.edge \in ret.val.edge_set
        /\ IsMaximal(mesh, ret.val)

(***************************************************************************)
(* C8: a snapshot taken by from_context and restored on the same topology, *)
(* whatever flag writes and mode changes came between, leaves the select   *)
(* mode, the selected vertices, edges and faces and the active element as  *)
(* they were at capture.                                                   *)
(***************************************************************************)
SelectionAsSaved ==
    /\ sel.mode = saved.mode
    /\ sel.verts = saved.selected_verts
    /\ sel.edges = saved.selected_edges
    /\ sel.faces = saved.selected_faces

ActiveAsSaved ==
    /\ ActiveType(sel) = saved.active_type
    /\ ActiveIndex(sel) = saved.active

C8_RoundTrip ==
    (ret.op = "restore" /\ ret.snapshot = "captured") =>
        (~ ret.raised /\ SelectionAsSaved /\ ActiveAsSaved)

(***************************************************************************)
(* C9: restore of a snapshot whose active reference does not resolve (the  *)
(* index is out of range for its kind, or the type is none of vertex, edge *)
(* and face) does not raise: the flags of the mode's kind are restored and *)
(* no element is active.                                                   *)
(***************************************************************************)
ActiveUnresolved ==
    /\ saved.active # -1
    /\ saved.active \notin Items(mesh, saved.active_type)

FlagsAsSaved ==
    /\ sel.mode = saved.mode
    /\ IF saved.mode[1] THEN sel.verts = saved.selected_verts \cap Verts(mesh)
       ELSE IF saved.mode[2] THEN sel.edges = saved.selected_edges \cap Edges(mesh)
       ELSE sel.faces = saved.selected_faces \cap Faces(mesh)

C9_StaleActiveTolerated ==
    (ret.op = "restore" /\ ActiveUnresolved) =>
        (~ ret.raised /\ FlagsAsSaved /\ sel.history = <<>>)

(***************************************************************************)
(* C10: when close_loop finds no path for an island, a later one included, *)
(* it returns cancelled with a warning and the selected vertices, edges    *)
(* and faces are those of the start of the call.                           *)
(***************************************************************************)
C10_NoPathRestores ==
    (ret.op = "close_loop" /\ ret.no_path) =>
        /\ ret.result = "CANCELLED"
        /\ ret.report = "WARNING"
        /\ sel.verts = ret.before.verts
        /\ sel.edges = ret.before.edges
        /\ sel.faces = ret.before.faces


(***************************************************************************)
(* C11: close_loop returns cancelled with a warning whenever some selected *)
(* island is branching or does not have exactly two endpoints, other       *)
(* islands being closable open chains or not.                              *)
(***************************************************************************)
IslandVerts(m, island) == UNION {edge_verts(m, e) : e \in island}

\* The island has a branch vertex or not exactly two of the endpoints.
Unpaired(m, info, island) ==
    \/ Range(info.branching) \cap IslandVerts(m, island) # {}
    \/ Cardinality(Range(info.endpoints) \cap IslandVerts(m, island)) # 2

C11_CancelledOnUnpairedIsland ==
    (/\ ret.op = "close_loop"
     /\ ~ ret.raised
     /\ \E island \in Range(from_bmesh(mesh, ret.before).edge_islands) :
           Unpaired(mesh, from_bmesh(mesh, ret.before), island)) =>
        (ret.result = "CANCELLED" /\ ret.report = "WARNING")

(***************************************************************************)
(* C12: when no vertex has exactly one selected edge, or some vertex has   *)
(* more than two, or no edge is selected, close_loop returns cancelled and *)
(* the select mode, every vertex, edge and face flag and the active        *)
(* element are those of the start of the call.                             *)
(***************************************************************************)
SelectedDegree(m, s, v) == Cardinality({e \in s.edges : v \in edge_verts(m, e)})

NotAnOpenLoop(m, s) ==
    \/ ~ \E v \in Verts(m) : SelectedDegree(m, s, v) = 1
    \/ \E v \in Verts(m) : SelectedDegree(m, s, v) > 2
    \/ s.edges = {}

C12_EarlyCancelChangesNothing ==
    (ret.op = "close_loop" /\ NotAnOpenLoop(mesh, ret.before)) =>
        (ret.result = "CANCELLED" /\ sel = ret.before)

\* A cancelled call on a selection with endpoints, a branch vertex and an
\* active element.
C12_Witness ==
    /\ ret.op = "close_loop"
    /\ \E v \in Verts(mesh) : SelectedDegree(mesh, ret.before, v) = 1
    /\ \E v \in Verts(mesh) : SelectedDegree(mesh, ret.before, v) > 2
    /\ ret.before.history # <<>>
    /\ ret.result = "CANCELLED"
    /\ sel = ret.before

(***************************************************************************)
(* C13: on the open grid of 3 x 3 vertices with edge select mode on, when  *)
(* the selected edges are two edges at the middle vertex that lie on one   *)
(* quad, close_loop finishes and the selected edges are then the four      *)
(* edges of that quad, the two added ones being boundary edges.            *)
(***************************************************************************)
\* The vertex of the grid that is not on its boundary.
MiddleVertex == CHOOSE v \in Verts(Grid3) : ~ vert_is_boundary(Grid3, v)

\* The quads of which a and b are two edges at the middle vertex.
QuadsOfL(a, b) ==
    {f \in Faces(Grid3) :
        /\ {a, b} \subseteq Grid3.fe[f]
        /\ MiddleVertex \in edge_verts(Grid3, a) \cap edge_verts(Grid3, b)}

C13_GridLClosed ==
    (/\ ret.op = "close_loop"
     /\ mesh = Grid3
     /\ ret.before.mode[2]) =>
        \A a, b \in Edges(Grid3) :
            (a # b /\ ret.before.edges = {a, b} /\ QuadsOfL(a, b) # {}) =>
                /\ ret.result = "FINISHED"
                /\ \A f \in QuadsOfL(a, b) :
                      /\ sel.edges = Grid3.fe[f]
                      /\ \A e \in Grid3.fe[f] \ {a, b} : edge_is_boundary(Grid3, e)

\* The L of the edges 1 and 2 closed over the corner vertex 0 in edge mode.
C13_Witness ==
    /\ ret.op = "close_loop"
    /\ mesh = Grid3
    /\ ret.before.mode = <<FALSE, TRUE, FALSE>>
    /\ ret.before.edges = {1, 2}
    /\ ret.result = "FINISHED"
    /\ sel.edges = {0, 1, 2, 3}

(***************************************************************************)
(* C18: when find_loop(e, a) without a stop set returns an open chain      *)
(* whose start a is an end of the chain (a pole, or a vertex with no edge  *)
(* to go on with), and f and b are its last edge and last vertex, then     *)
(* find_loop(f, b) returns the same vertices and edges in reverse order,   *)
(* so the two loops compare equal; and loop.reverse() compares equal to    *)
(* loop.                                                                   *)
(***************************************************************************)
C18_ReverseWalk ==
    (/\ ret.op = "find_loop"
     /\ ret.stop_set = {}
     /\ ret.halts
     /\ ~ is_closed(ret.val)
     /\ CannotExtend(mesh, ret.start, ret.edge)) =>
        LET back == FindLoopRun(mesh, Last(ret.val.edges), Last(ret.val.vertices), {})
        IN /\ back.halts
           /\ LoopEq(LoopOf(back), ret.val)
           /\ back.vertices = Reverse(ret.val.vertices)
           /\ back.edges = Reverse(ret.val.edges)
           /\ LoopEq(reverse(ret.val), ret.val)

(***************************************************************************)
(* C19: for a mesh that is one closed ring of 6 edges with no pole among   *)
(* its vertices, pure_edge_loops returns exactly one loop, closed and of 6 *)
(* edges.  No mesh of the program is such a ring: a vertex of two edges    *)
(* counts 2, plus 1 on a boundary or 1 as a wire vertex, never 4, so every *)
(* vertex of a ring is a pole (C19_RingHasPoles) and pure_edge_loops       *)
(* returns its edges one by one (C19_RingEdgeByEdge).                      *)
(***************************************************************************)
IsRing6(m) ==
    /\ m.nv = 6
    /\ m.ne = 6
    /\ \A v \in Verts(m) : Len(link_edges(m, v)) = 2
    /\ Island(m, Edges(m), {0}) = Edges(m)

C19_RingOneLoop ==
    (ret.op = "pure_edge_loops" /\ IsRing6(mesh) /\ PoleSet(mesh) = {}) =>
        /\ ret.halts
        /\ Len(ret.val) = 1
        /\ is_closed(ret.val[1])
        /\ Len(ret.val[1].edges) = 6

C19_RingHasPoles == IsRing6(mesh) => PoleSet(mesh) = Verts(mesh)

C19_RingEdgeByEdge ==
    (ret.op = "pure_edge_loops" /\ IsRing6(mesh)) =>
        /\ ret.halts
        /\ Len(ret.val) = 6
        /\ \A i \in DOMAIN ret.val : Len(ret.val[i].edges) = 1 /\ ~ is_closed(ret.val[i])

C19_RingReached == ret.op = "pure_edge_loops" /\ IsRing6(mesh)

(***************************************************************************)
(* C20: find_loop returns for every mesh, starting edge, start vertex and  *)
(* stop set, and so do pure_edge_loop, pure_edge_loops and get_edge_loops. *)
(***************************************************************************)
C20_Terminates ==
    ret.op \in {"find_loop", "pure_edge_loop", "pure_edge_loops", "get_edge_loops"} =>
        ret.halts

(***************************************************************************)
(* C14: in smart mode without extend and outside face mode, after the n-th *)
(* of n invocations repeated at one edge, the first of them met by a cache *)
(* that held no loop of the edge, nothing is selected but                  *)
(* loops[(n-1) mod k], loops being get_edge_loops(mesh, edge) and k its    *)
(* length.  Stated on what the select mode shows: the selected vertices    *)
(* are those of the loop and, in a mode without vertices, the selected     *)
(* edges are the loop.                                                     *)
(***************************************************************************)
LoopVerts(m, loop) == UNION {edge_verts(m, e) : e \in loop}

OnlySelected(m, s, verts, edges) ==
    /\ s.verts = verts
    /\ ~ s.mode[1] => s.edges = edges

C14_CycleReplaces ==
    (/\ ret.op = "select_loop"
     /\ ret.smart
     /\ ret.halts
     /\ ~ ret.extend
     /\ ret.hit # -1
     /\ ret.clean) =>
        LET loops == get_edge_loops(mesh, ret.hit).val
            loop == loops[((ret.n - 1) % Len(loops)) + 1]
        IN /\ ret.result = "FINISHED"
           /\ OnlySelected(mesh, sel, LoopVerts(mesh, loop), loop)

(***************************************************************************)
(* C16: in smart mode with extend, from a selection S in which the first   *)
(* loop of the edge is not fully selected, the n-th of n invocations       *)
(* repeated at the edge leaves S with loops[(n-1) mod (k+1)] added, and    *)
(* S alone where that index is k.  Stated on what the select mode shows,   *)
(* as for C14.                                                             *)
(***************************************************************************)
C16_CycleExtends ==
    (/\ ret.op = "select_loop"
     /\ ret.smart
     /\ ret.halts
     /\ ret.extend
     /\ ret.hit # -1
     /\ ~ (get_edge_loops(mesh, ret.hit).val[1] \subseteq ret.start.edges)) =>
        LET loops == get_edge_loops(mesh, ret.hit).val
            i == (ret.n - 1) % (Len(loops) + 1)
            loop == IF i < Len(loops) THEN loops[i + 1] ELSE {}
        IN /\ ret.result = "FINISHED"
           /\ OnlySelected(mesh, sel, ret.start.verts \cup LoopVerts(mesh, loop),
                           ret.start.edges \cup loop)

(***************************************************************************)
(* C15: at a smart invocation with an edge under the pointer, if the       *)
(* tracked mesh differs from the current one, or an edge of the cached     *)
(* loop is not selected or not there, the cache is reset and the cycle     *)
(* starts anew at the first loop of the edge; otherwise the cache is kept  *)
(* and a cached loop of the edge is followed by the next entry.            *)
(***************************************************************************)
Answered ==
    /\ ret.op = "select_loop"
    /\ ret.smart
    /\ ret.halts
    /\ ~ ret.raised
    /\ ret.hit # -1

Stale == ret.differs \/ ret.broken

\* The cache was kept: the tracked mesh is the current one, and a cached loop
\* of the edge is followed by the entry after one of its occurrences.
CacheKept(loops) ==
    /\ cache.current_mesh = <<object>>
    /\ (ret.cached # <<>> /\ ret.cached[1] \in Range(loops)) =>
          LET all == IF ret.extend THEN Append(loops, {}) ELSE loops
          IN \E i \in DOMAIN all :
                /\ all[i] = ret.cached[1]
                /\ ret.next_loop = all[(i % Len(all)) + 1]

\* The cache was reset before the cycle went on: the tracked mesh is the
\* current one, and the selection saved is the one this invocation met, none
\* without extend.
CacheReset ==
    /\ cache.current_mesh = <<object>>
    /\ ret.n = 1
    /\ cache.old_selection # <<>> <=> ret.extend

\* The statement as it reads: a stale cache always has the first loop selected.
C15_StaleSelectsFirst ==
    Answered =>
        LET loops == get_edge_loops(mesh, ret.hit).val
        IN IF Stale
           THEN /\ CacheReset
                /\ ret.next_loop = loops[1]
                /\ loops[1] \subseteq sel.edges
           ELSE CacheKept(loops)

\* With extend, a first loop that is fully selected already is taken out of
\* the selection (lines 497-505) and the cycle stands before its first entry.
ToggledOut(loops) == ret.extend /\ loops[1] \subseteq ret.start.edges

C15_StaleRestartsCycle ==
    Answered =>
        LET loops == get_edge_loops(mesh, ret.hit).val
        IN IF Stale
           THEN /\ CacheReset
                /\ IF ToggledOut(loops)
                   THEN /\ ret.next_loop = {}
                        /\ cache.old_selection[1].selected_edges \cap loops[1] = {}
                        /\ sel.edges \cap loops[1] = {}
                   ELSE /\ ret.next_loop = loops[1]
                        /\ loops[1] \subseteq sel.edges
           ELSE CacheKept(loops)

\* A cached loop of the edge under the pointer has lost a selected edge on
\* the tracked mesh: the cycle does not advance, the first loop is selected.
C15_Witness ==
    /\ Answered
    /\ ret.result = "FINISHED"
    /\ ~ ret.differs
    /\ ret.broken
    /\ ret.cached # <<>>
    /\ ret.cached[1] \in Range(get_edge_loops(mesh, ret.hit).val)
    /\ ret.cached[1] # get_edge_loops(mesh, ret.hit).val[Len(get_edge_loops(mesh, ret.hit).val)]
    /\ ret.next_loop = get_edge_loops(mesh, ret.hit).val[1]

(***************************************************************************)
(* C17: when a shrink in automatic, boundaries or faces mode leaves no     *)
(* vertex selected after the native shrink step, resize_selection ends as  *)
(* a cancellation with a warning, and the selection is the one before the  *)
(* call.                                                                   *)
(***************************************************************************)
EmptiedByShrink ==
    /\ ret.op = "resize_selection"
    /\ ret.direction = "SHRINK"
    /\ ret.mode \in {"AUTOMATIC", "BOUNDARIES", "FACES"}
    /\ ret.path # "none"
    /\ ret.native.verts = {}

C17_EmptiedShrinkCancels ==
    EmptiedByShrink =>
        /\ ret.result = "CANCELLED"
        /\ ret.level = "WARNING"
        /\ sel = ret.before

(***************************************************************************)
(* C21: every PureEdgeLoop that find_loop returns, for any edge, start     *)
(* vertex and stop set, has one vertex more than edges, its i-th edge      *)
(* joins its i-th and (i+1)-th vertex, no two consecutive edges share a    *)
(* face, no interior vertex is a pole or in the stop set, and edge_set is  *)
(* the set of its edges.                                                   *)
(***************************************************************************)
LoopInvariant(m, loop, stop_set) ==
    /\ Len(loop.vertices) = Len(loop.edges) + 1
    /\ \A i \in DOMAIN loop.edges :
          /\ loop.edges[i] \in Edges(m)
          /\ edge_verts(m, loop.edges[i]) = {loop.vertices[i], loop.vertices[i + 1]}
    /\ \A i \in 1 .. Len(loop.edges) - 1 :
          edge_link_faces(m, loop.edges[i]) \cap edge_link_faces(m, loop.edges[i + 1]) = {}
    /\ \A i \in 2 .. Len(loop.vertices) - 1 :
          ~ is_pole(m, loop.vertices[i]) /\ loop.vertices[i] \notin stop_set
    /\ loop.edge_set = {loop.edges[i] : i \in DOMAIN loop.edges}

C21_LoopInvariant ==
    (ret.op = "find_loop" /\ ret.halts) => LoopInvariant(mesh, ret.val, ret.stop_set)

\* find_loop has returned a walk of three edges or more past a vertex that is
\* no pole, under a stop set that is not empty.
C21_Witness ==
    /\ ret.op = "find_loop"
    /\ ret.halts
    /\ Len(ret.val.edges) >= 3
    /\ ret.stop_set # {}
    /\ \E f \in Faces(mesh) : ret.val.edge_set \cap mesh.fe[f] # {}

(***************************************************************************)
(* C22: whenever find_loop stops because the next edge it chose is the     *)
(* edge it started with, the loop it returns is closed: its last vertex is *)
(* the start vertex.                                                       *)
(***************************************************************************)
C22_StopAtStartIsClosed ==
    (ret.op = "find_loop" /\ ret.halts /\ ret.why = "start") =>
        /\ Last(ret.val.vertices) = ret.start
        /\ ret.val.vertices[1] = Last(ret.val.vertices)
        /\ is_closed(ret.val)

(***************************************************************************)
(* C23: every loop returned by pure_edge_loops is a maximal pure loop: its *)
(* edge set is that of pure_edge_loop(mesh, e) for each edge e it          *)
(* contains, and an open loop that ends at a pole is listed starting at a  *)
(* pole; loops of the second sweep included.                               *)
(***************************************************************************)
EndsAtPole(m, loop) ==
    is_pole(m, loop.vertices[1]) \/ is_pole(m, Last(loop.vertices))

C23_SweepLoopsMaximal ==
    (ret.op = "pure_edge_loops" /\ ret.halts) =>
        \A i \in DOMAIN ret.val :
            /\ \A e \in ret.val[i].edge_set :
                  /\ pure_edge_loop(mesh, e).halts
                  /\ pure_edge_loop(mesh, e).val.edge_set = ret.val[i].edge_set
            /\ (~ is_closed(ret.val[i]) /\ EndsAtPole(mesh, ret.val[i])) =>
                  is_pole(mesh, ret.val[i].vertices[1])

(***************************************************************************)
(* C24: the list of get_edge_loops never has more than MAX_EDGE_LOOPS + 1  *)
(* = 11 entries, the pure loop and at most 10 closed compositions, and     *)
(* once it holds more than 10 entries no further search node is recorded   *)
(* or expanded: the next iteration leaves the loop with the list and the   *)
(* visited vertices as they are.                                           *)
(***************************************************************************)
C24_AtMostEleven ==
    [][ret'.op = "search" =>
          /\ Len(ret'.all_loops) <= MAX_EDGE_LOOPS + 1
          /\ (ret.op = "search" /\ Len(ret.all_loops) > MAX_EDGE_LOOPS) =>
                /\ ret'.all_loops = ret.all_loops
                /\ ret'.visited_verts = ret.visited_verts
                /\ ret'.done]_vars

\* The loop was left at line 423 with 11 entries in the list and search nodes
\* still in the queue, on a fan of more than 10 rungs.
C24_Witness ==
    /\ ret.op = "search"
    /\ ret.did = "break"
    /\ ret.edge = 0
    /\ Len(ret.all_loops) = MAX_EDGE_LOOPS + 1
    /\ ret.queue # <<>>
    /\ mesh.nv - 2 > MAX_EDGE_LOOPS

(***************************************************************************)
(* C25: the islands of EdgeSelectionInfo.from_bmesh are the connected      *)
(* components of the selected edges: every selected edge is in exactly one *)
(* island, no unselected edge is in any, and two selected edges are in the *)
(* same island iff a chain of selected edges sharing vertices links them.  *)
(***************************************************************************)
\* The vertices that selected edges link to the vertices of seen.
RECURSIVE LinkedVerts(_, _, _)
LinkedVerts(m, selected, seen) ==
    LET more == UNION {edge_verts(m, e) : e \in {d \in selected : edge_verts(m, d) \cap seen # {}}}
    IN IF more \subseteq seen THEN seen ELSE LinkedVerts(m, selected, seen \cup more)

Chained(m, selected, e, d) ==
    edge_verts(m, d) \cap LinkedVerts(m, selected, edge_verts(m, e)) # {}

AreComponents(m, selected, islands) ==
    /\ \A e \in selected : Cardinality({i \in DOMAIN islands : e \in islands[i]}) = 1
    /\ \A i \in DOMAIN islands : islands[i] \subseteq selected
    /\ \A e, d \in selected :
          (\E i \in DOMAIN islands : e \in islands[i] /\ d \in islands[i])
             <=> Chained(m, selected, e, d)

C25_IslandsAreComponents ==
    ret.op = "close_loop" =>
        AreComponents(mesh, ret.before.edges, from_bmesh(mesh, ret.before).edge_islands)

\* close_loop has analysed a selection of two islands or more, one of them
\* with two edges that share no vertex.
C25_Witness ==
    /\ ret.op = "close_loop"
    /\ LET islands == from_bmesh(mesh, ret.before).edge_islands
       IN /\ Len(islands) >= 2
          /\ \E i \in DOMAIN islands :
                \E e, d \in islands[i] : edge_verts(mesh, e) \cap edge_verts(mesh, d) = {}

(***************************************************************************)
(* C26: the loop returned by pure_edge_loop(mesh, edge) starts at a pole   *)
(* or has the given edge as its first edge.                                *)
(***************************************************************************)
C26_PoleOrEdgeFirst ==
    (ret.op = "pure_edge_loop" /\ ret.halts) =>
        \/ is_pole(mesh, ret.val.vertices[1])
        \/ ret.val.edges[1] = ret.edge

(***************************************************************************)
(* C27: when the pure loop of the query edge is open, every entry recorded *)
(* after the first is a strict superset of the first entry and contains    *)
(* the query edge, and the segments of the chain it is recorded from start *)
(* at the pure loop's first vertex, begin each where the previous one      *)
(* ended, and end back at the pure loop's first vertex.                    *)
(***************************************************************************)
StrictSuperset(a, b) == b \subseteq a /\ a # b

IsClosedChain(loops, v) ==
    /\ loops # <<>>
    /\ loops[1].vertices[1] = v
    /\ \A i \in 1 .. Len(loops) - 1 : loops[i + 1].vertices[1] = Last(loops[i].vertices)
    /\ Last(Last(loops).vertices) = v

C27_ChainsCloseOnStart ==
    [][(ret.op = "search" /\ ret'.op = "search" /\ ret'.did = "record") =>
          LET candidate == heappop(ret.queue).item
          IN /\ ~ is_closed(ret.pure_loop)
             /\ IsClosedChain(candidate.loops, ret.pure_loop.vertices[1])
             /\ Last(ret'.all_loops) = ChainEdges(candidate.loops)
             /\ \A i \in 2 .. Len(ret'.all_loops) :
                   StrictSuperset(ret'.all_loops[i], ret'.all_loops[1])
             /\ ret.edge \in Last(ret'.all_loops)]_vars

====
